---- MODULE Spec2Model ----
(***************************************************************************)
(* Model of the archmap analysis engine: the dependency graph and its      *)
(* orderings (analysis/graph.rs), the circular-dependency detector         *)
(* (analysis/circular.rs), the change-impact traversal                     *)
(* (analysis/impact.rs), the boundary-violation detector and its ownership *)
(* filter (analysis/boundary.rs) and the detector suite                    *)
(* (analysis/mod.rs).                                                      *)
(*                                                                         *)
(* A module is identified by its position in the Module list; that         *)
(* position is its petgraph NodeIndex and stands for its (unique) path, so *)
(* the order of paths is the order of positions.  The graph is the list of *)
(* edges in the order DependencyGraph::build added them (duplicate imports *)
(* give parallel edges).                                                   *)
(***************************************************************************)
EXTENDS Integers, Sequences, FiniteSets, TLC

\* Largest number of modules in an analysed tree.
MaxNodes == 3
\* Largest number of resolved imports (edges, parallel edges included).
MaxEdges == 3
\* Largest depth limit handed to compute_impact.
MaxDepthLimit == 3
\* Largest number of modules whose files the boundary scan reads.
MaxScanned == 2
\* Largest number of boundary hits in one file.
MaxHits == 8
\* Largest number of modules, and of resolved imports, in a full analysis.
MaxSuiteModules == 2
MaxSuiteEdges == 2
\* Largest number of modules handed to detect_fat_modules.
MaxFatModules == 2
\* Largest number of modules handed to detect_low_cohesion.
MaxCohesionModules == 2
\* Largest number of modules handed to detect_god_objects.
MaxGodModules == 2
\* Largest number of modules in an import chain.
MaxChainNodes == 5
\* Largest number of modules, and of imports of one module, handed to
\* DependencyGraph::build with their paths and import strings.
MaxBuildModules == 2
MaxImports == 2
\* detect_low_cohesion's sort: the modules of a list
MaxSortModules == 2
\* glob_match: the characters of a path and of the text around a wildcard
MaxPathChars == 5
MaxNameChars == 2
\* the boundary scan: the pieces of a line
MaxLinePieces == 4
\* extract_crate_name: the imports of the module
MaxNamespaceImports == 3
\* discover_modules: the entries of the tree, the walker's worker threads and
\* the analysis runs over one tree
MaxTreeEntries == 3
MaxWorkers == 2
MaxRuns == 2

VARIABLES
    nodes,      \* number of modules; the graph's nodes are 1..nodes
    edges,      \* sequence of <<from, to>>, in the order add_edge was called
    op,         \* the operation that produced the current results
    issues,     \* Vec<Issue> returned by the last detector call
    order,      \* result of the last ordering call: [ok, seq]
    impact,     \* result of the last compute_impact call
    files,      \* per module, the lines of its source file as the scan sees them
    config,     \* Config: thresholds, the boundary, expected_high_coupling
    filtered,   \* Vec<Location> returned by the last apply_ownership_filter
    mods,       \* the Module list: per module, the metadata the detectors read
    walk,       \* discover_modules: the tree, the entries not yet visited, the
                \* module each worker thread has parsed and not yet pushed,
                \* and what the caller holds of the previous run
    glob,       \* glob_match: the pattern, the path and the result of a call
    graph_data  \* the visualizer's GraphData made from the AnalysisResult

vars == <<nodes, edges, op, issues, order, impact, files, config, filtered, mods,
          walk, glob, graph_data>>

\* no GraphData made
NoGraphData ==
    [nodes |-> <<>>, links |-> <<>>,
     metadata |-> [total_modules |-> 0, total_dependencies |-> 0,
                   total_issues |-> 0, cycle_count |-> 0]]

\* no call of glob_match
NoGlob == [pattern |-> <<>>, path |-> <<>>, result |-> <<>>]

\* no discovery in progress: the Module list is given
NoWalk == [tree |-> {}, pending |-> {}, busy |-> <<>>, runs |-> 0,
           previous |-> <<>>]

----------------------------------------------------------------------------
\* Sequence helpers

Reverse(s) == [i \in 1..Len(s) |-> s[Len(s) + 1 - i]]

Range(s) == {s[i] : i \in 1..Len(s)}

Contains(s, x) == \E i \in 1..Len(s) : s[i] = x

RECURSIVE Flatten(_)
Flatten(ss) == IF ss = <<>> THEN <<>> ELSE Head(ss) \o Flatten(Tail(ss))

Max(a, b) == IF a >= b THEN a ELSE b

----------------------------------------------------------------------------
\* petgraph DiGraph as used by DependencyGraph

NodeIds == 1..nodes

\* neighbors_directed(v, Outgoing): the targets of v's outgoing edges, most
\* recently added edge first, one entry per parallel edge.
Outgoing(v) ==
    LET out == SelectSeq(edges, LAMBDA e : e[1] = v)
    IN  Reverse([i \in 1..Len(out) |-> out[i][2]])

\* neighbors_directed(v, Incoming): the sources of v's incoming edges.
Incoming(v) ==
    LET inc == SelectSeq(edges, LAMBDA e : e[2] = v)
    IN  Reverse([i \in 1..Len(inc) |-> inc[i][1]])

contains(path) == path \in NodeIds

fan_in(path) == IF contains(path) THEN Len(Incoming(path)) ELSE 0

fan_out(path) == IF contains(path) THEN Len(Outgoing(path)) ELSE 0

direct_dependents(path) == IF contains(path) THEN Incoming(path) ELSE <<>>

----------------------------------------------------------------------------
\* Reference notions the claims are stated in (not program code)

HasEdge(a, b) == \E i \in 1..Len(edges) : edges[i] = <<a, b>>

RECURSIVE ReachIn(_, _)
\* nodes reachable from the set S in at most k forward hops
ReachIn(S, k) ==
    IF k = 0 THEN S
    ELSE LET R == ReachIn(S, k - 1)
         IN  R \cup {b \in NodeIds : \E a \in R : HasEdge(a, b)}

\* b is reachable from a by a path of one or more edges
Reaches(a, b) ==
    b \in ReachIn({c \in NodeIds : HasEdge(a, c)}, nodes)

OnCycle(a) == Reaches(a, a)

SameComponent(a, b) == a = b \/ (Reaches(a, b) /\ Reaches(b, a))

ComponentOf(a) == {b \in NodeIds : SameComponent(a, b)}

Acyclic == \A a \in NodeIds : ~OnCycle(a)

----------------------------------------------------------------------------
\* petgraph::algo::tarjan_scc, as called at analysis/circular.rs:9.
\* The library runs Pearce's variant of Tarjan's algorithm: a component is
\* emitted when its root finishes, so components come out in reverse
\* topological order; a node's rootindex is 0 while it is unvisited.

\* usize::MAX in the library; it only has to exceed every visit index.
ComponentCountStart == 2 ^ 20

TarjanInit ==
    [rootindex |-> [n \in NodeIds |-> 0],
     index |-> 1,
     componentcount |-> ComponentCountStart,
     stack |-> <<>>,
     sccs |-> <<>>]

RECURSIVE PopComponent(_, _, _, _)
\* the rposition scan of the stack when v is a local root: every node above
\* the first one with a smaller rootindex joins v's component
PopComponent(st, v, k, adj) ==
    IF k >= 1 /\ ~(st.rootindex[v] > st.rootindex[st.stack[k]])
    THEN PopComponent([st EXCEPT !.rootindex[st.stack[k]] = st.componentcount],
                      v, k - 1, adj + 1)
    ELSE [st EXCEPT
            !.rootindex[v] = st.componentcount,
            !.sccs = Append(@, SubSeq(st.stack, k + 1, Len(st.stack)) \o <<v>>),
            !.stack = SubSeq(st.stack, 1, k),
            !.index = @ - adj,
            !.componentcount = @ - 1]

RECURSIVE TarjanVisit(_, _)
RECURSIVE TarjanNeighbors(_, _, _, _, _)

TarjanNeighbors(st, v, ws, i, root) ==
    IF i > Len(ws) THEN [st |-> st, root |-> root]
    ELSE LET w == ws[i]
             st2 == IF st.rootindex[w] = 0 THEN TarjanVisit(st, w) ELSE st
         IN  IF st2.rootindex[w] < st2.rootindex[v]
             THEN TarjanNeighbors([st2 EXCEPT !.rootindex[v] = st2.rootindex[w]],
                                  v, ws, i + 1, FALSE)
             ELSE TarjanNeighbors(st2, v, ws, i + 1, root)

TarjanVisit(st, v) ==
    LET st1 == [st EXCEPT !.rootindex[v] = st.index, !.index = @ + 1]
        r == TarjanNeighbors(st1, v, Outgoing(v), 1, TRUE)
    IN  IF r.root
        THEN PopComponent(r.st, v, Len(r.st.stack), 1)
        ELSE [r.st EXCEPT !.stack = Append(@, v)]

RECURSIVE TarjanRun(_, _)
TarjanRun(st, n) ==
    IF n > nodes THEN st
    ELSE TarjanRun(IF st.rootindex[n] = 0 THEN TarjanVisit(st, n) ELSE st, n + 1)

tarjan_scc == TarjanRun(TarjanInit, 1).sccs

----------------------------------------------------------------------------
\* model/issue.rs

Location(path, line) == [path |-> path, line |-> line]

\* Issue::circular_dependency: one location per cycle member, no line
circular_dependency(cycle) ==
    [kind |-> "CircularDependency",
     locations |-> [i \in 1..Len(cycle) |-> Location(cycle[i], 0)],
     payload |-> <<>>]

\* Issue::high_coupling
high_coupling(path, fanIn) ==
    [kind |-> "HighCoupling",
     locations |-> <<Location(path, 0)>>,
     payload |-> <<fanIn>>]

\* Issue::boundary_violation
boundary_violation(boundary_name, locations) ==
    [kind |-> "BoundaryViolation",
     locations |-> locations,
     payload |-> <<boundary_name>>]

LocationPaths(issue) == {issue.locations[i].path : i \in 1..Len(issue.locations)}

----------------------------------------------------------------------------
\* analysis/circular.rs

\* SccIssues without the self-loop branch
SccIssues_SkipSelfLoop(scc) ==
    IF Len(scc) > 1 THEN <<circular_dependency(scc)>> ELSE <<>>

\* the issue, if any, that one strongly connected component gives rise to
SccIssues(scc) ==
    IF Len(scc) > 1 THEN <<circular_dependency(scc)>>
    ELSE IF Len(scc) = 1 /\ Contains(Outgoing(scc[1]), scc[1])
         THEN <<circular_dependency(<<scc[1]>>)>>
         ELSE <<>>

detect_circular_dependencies ==
    LET sccs == tarjan_scc
    IN  Flatten([i \in 1..Len(sccs) |-> SccIssues(sccs[i])])


----------------------------------------------------------------------------
\* petgraph::algo::toposort, as called at analysis/graph.rs:82.
\* A depth-first pass from every node, highest index first, records the
\* nodes in finishing order and fails on a self-loop; the reversed finishing
\* order is accepted if a search of the reversed graph from each of its
\* nodes, in that order, finds no node other than the start.

RECURSIVE TopoWalk(_)
\* the inner `while let Some(&nx) = dfs.stack.last()` loop
TopoWalk(d) ==
    IF d.stack = <<>> \/ d.err THEN d
    ELSE LET nx == d.stack[Len(d.stack)]
         IN  IF nx \notin d.discovered
             THEN LET disc == d.discovered \cup {nx}
                      succs == Outgoing(nx)
                  IN  IF Contains(succs, nx)
                      THEN [d EXCEPT !.err = TRUE]
                      ELSE TopoWalk([d EXCEPT
                              !.discovered = disc,
                              !.stack = @ \o SelectSeq(succs, LAMBDA w : w \notin disc)])
             ELSE TopoWalk([d EXCEPT
                      !.stack = SubSeq(@, 1, Len(@) - 1),
                      !.finished = @ \cup {nx},
                      !.finish_stack = IF nx \in d.finished THEN @ ELSE Append(@, nx)])

RECURSIVE TopoFinish(_, _)
\* the outer `for i in g.node_identifiers().rev()` loop
TopoFinish(d, i) ==
    IF i < 1 \/ d.err THEN d
    ELSE IF i \in d.discovered THEN TopoFinish(d, i - 1)
    ELSE TopoFinish(TopoWalk([d EXCEPT !.stack = Append(@, i)]), i - 1)

RECURSIVE DfsNextReversed(_)
\* Dfs::next over Reversed(g): the next undiscovered node on the stack
DfsNextReversed(d) ==
    IF d.stack = <<>> THEN [found |-> FALSE, dfs |-> d]
    ELSE LET node == d.stack[Len(d.stack)]
             rest == SubSeq(d.stack, 1, Len(d.stack) - 1)
         IN  IF node \notin d.discovered
             THEN LET disc == d.discovered \cup {node}
                  IN  [found |-> TRUE,
                       dfs |-> [stack |-> rest \o SelectSeq(Incoming(node),
                                                            LAMBDA w : w \notin disc),
                                discovered |-> disc]]
             ELSE DfsNextReversed([d EXCEPT !.stack = rest])

RECURSIVE TopoCheck(_, _, _)
\* the second loop: TRUE iff no search finds a second node
TopoCheck(finish_stack, k, discovered) ==
    IF k > Len(finish_stack) THEN TRUE
    ELSE LET first == DfsNextReversed([stack |-> <<finish_stack[k]>>,
                                       discovered |-> discovered])
             second == DfsNextReversed(first.dfs)
         IN  IF first.found /\ second.found THEN FALSE
             ELSE TopoCheck(finish_stack, k + 1,
                            IF first.found THEN second.dfs.discovered
                            ELSE first.dfs.discovered)

toposort ==
    LET d == TopoFinish([stack |-> <<>>, discovered |-> {}, finished |-> {},
                         finish_stack |-> <<>>, err |-> FALSE], nodes)
        sorted == Reverse(d.finish_stack)
    IN  IF d.err \/ ~TopoCheck(sorted, 1, {})
        THEN [ok |-> FALSE, seq |-> <<>>]
        ELSE [ok |-> TRUE, seq |-> sorted]

----------------------------------------------------------------------------
\* analysis/graph.rs: orderings

\* topological_order listing imported modules before their importers
topological_order_reversed ==
    [ok |-> toposort.ok, seq |-> Reverse(toposort.seq)]

\* Option<Vec<PathBuf>>: ok = FALSE is None
topological_order == toposort

RECURSIVE KahnRelax(_, _, _)
\* the loop over idx's outgoing neighbours: decrement, enqueue at zero
KahnRelax(k, ws, i) ==
    IF i > Len(ws) THEN k
    ELSE LET w == ws[i]
             degree == Max(k.in_degree[w] - 1, 0)
             k2 == [k EXCEPT !.in_degree[w] = degree]
         IN  KahnRelax(IF degree = 0 /\ w \notin k.visited
                       THEN [k2 EXCEPT !.queue = Append(@, w)]
                       ELSE k2,
                       ws, i + 1)

RECURSIVE KahnLoop(_)
\* `while let Some(idx) = queue.pop_front()`
KahnLoop(k) ==
    IF k.queue = <<>> THEN k
    ELSE LET idx == Head(k.queue)
             k1 == [k EXCEPT !.queue = Tail(@)]
         IN  IF idx \in k.visited THEN KahnLoop(k1)
             ELSE KahnLoop(KahnRelax([k1 EXCEPT !.visited = @ \cup {idx},
                                                !.result = Append(@, idx)],
                                     Outgoing(idx), 1))

kahn_with_cycle_handling ==
    LET all == [i \in 1..nodes |-> i]
        k == KahnLoop([in_degree |-> [n \in NodeIds |-> Len(Incoming(n))],
                       queue |-> SelectSeq(all, LAMBDA n : Len(Incoming(n)) = 0),
                       visited |-> {},
                       result |-> <<>>])
    IN  k.result \o SelectSeq(all, LAMBDA n : n \notin k.visited)

topological_order_with_cycles ==
    LET sorted == topological_order
    IN  IF sorted.ok THEN sorted.seq ELSE kahn_with_cycle_handling


----------------------------------------------------------------------------
\* analysis/impact.rs
\* Option<usize> is <<>> for None and <<m>> for Some(m).

None == <<>>
Some(m) == <<m>>

\* More loop iterations and recursive calls than any traversal of a graph
\* within the bounds can need; a traversal that uses them up did not finish.
StepLimit == (MaxNodes + 2) * (MaxEdges + 2)

RECURSIVE SortedSeq(_)
\* Vec::sort of a collection of distinct paths
SortedSeq(S) ==
    IF S = {} THEN <<>>
    ELSE LET m == CHOOSE x \in S : \A y \in S : x <= y
         IN  <<m>> \o SortedSeq(S \ {m})

RECURSIVE BfsVisit_Revisit(_, _, _, _, _)
\* BfsVisit without the visited test
BfsVisit_Revisit(b, deps, i, from, depth) ==
    IF i > Len(deps) THEN b
    ELSE BfsVisit_Revisit([b EXCEPT
                             !.visited = @ \cup {deps[i]},
                             !.depth_map = (deps[i] :> depth) @@ @,
                             !.parent_map = (deps[i] :> <<from>>) @@ @,
                             !.queue = Append(@, <<deps[i], depth>>)],
                          deps, i + 1, from, depth)

RECURSIVE BfsVisit(_, _, _, _, _)
\* `for dep in dependents { if !visited.contains(&dep) { ... } }`
BfsVisit(b, deps, i, from, depth) ==
    IF i > Len(deps) THEN b
    ELSE LET dep == deps[i]
         IN  IF dep \in b.visited THEN BfsVisit(b, deps, i + 1, from, depth)
             ELSE BfsVisit([b EXCEPT
                              !.visited = @ \cup {dep},
                              !.depth_map = @ @@ (dep :> depth),
                              !.parent_map = @ @@ (dep :> <<from>>),
                              !.queue = Append(@, <<dep, depth>>)],
                           deps, i + 1, from, depth)

RECURSIVE BfsLoop(_, _, _)
\* `while let Some((node, depth)) = queue.pop_front()`
BfsLoop(b, max_depth, fuel) ==
    IF b.queue = <<>> THEN b
    ELSE IF fuel = 0 THEN [b EXCEPT !.exhausted = TRUE]
    ELSE LET node == Head(b.queue)[1]
             depth == Head(b.queue)[2]
             b1 == [b EXCEPT !.queue = Tail(@), !.pops = @ + 1]
         IN  IF max_depth # None /\ depth >= max_depth[1]
             THEN BfsLoop(b1, max_depth, fuel - 1)
             ELSE BfsLoop(BfsVisit(b1, direct_dependents(node), 1, node, depth + 1),
                          max_depth, fuel - 1)

RECURSIVE InsertByPath(_, _)
\* position of a child in the stable sort of children by path
InsertByPath(sorted, child) ==
    IF sorted = <<>> THEN <<child>>
    ELSE IF child.path < Head(sorted).path THEN <<child>> \o sorted
    ELSE <<Head(sorted)>> \o InsertByPath(Tail(sorted), child)

RECURSIVE SortByPath(_)
SortByPath(children) ==
    IF children = <<>> THEN <<>>
    ELSE InsertByPath(SortByPath(SubSeq(children, 1, Len(children) - 1)),
                      children[Len(children)])

RECURSIVE build_tree_recursive(_, _, _, _)
RECURSIVE TreeChildren(_, _, _, _, _, _)

\* t = [visited, calls]: the shared visited set and the calls made so far.
\* Returns [node, t].
build_tree_recursive(node, depth, max_depth, t) ==
    LET t0 == [t EXCEPT !.calls = @ + 1]
    IN  IF t0.calls > StepLimit
        THEN [node |-> [path |-> node, depth |-> depth, children |-> <<>>],
              t |-> [t0 EXCEPT !.exhausted = TRUE]]
        ELSE IF max_depth # None /\ depth >= max_depth[1]
        THEN [node |-> [path |-> node, depth |-> depth, children |-> <<>>],
              t |-> t0]
        ELSE LET r == TreeChildren(direct_dependents(node), 1, depth, max_depth,
                                   [t0 EXCEPT !.visited = @ \cup {node}], <<>>)
             IN  [node |-> [path |-> node, depth |-> depth,
                            children |-> SortByPath(r.children)],
                  t |-> r.t]

\* `for dep in graph.direct_dependents(node)`
TreeChildren(deps, i, depth, max_depth, t, children) ==
    IF i > Len(deps) THEN [children |-> children, t |-> t]
    ELSE IF deps[i] \in t.visited
         THEN TreeChildren(deps, i + 1, depth, max_depth, t, children)
         ELSE LET c == build_tree_recursive(deps[i], depth + 1, max_depth, t)
              IN  TreeChildren(deps, i + 1, depth, max_depth, c.t,
                               Append(children, c.node))

build_impact_tree(root, max_depth) ==
    build_tree_recursive(root, 0, max_depth,
                         [visited |-> {}, calls |-> 0, exhausted |-> FALSE])

NoImpact ==
    [ok |-> FALSE, err |-> "", target |-> 0, max_depth |-> None,
     affected_by_depth |-> <<>>, total_affected |-> 0, max_chain_length |-> 0,
     tree |-> <<>>, finished |-> TRUE, steps |-> 0]

MaxOf(S) == IF S = {} THEN 0 ELSE CHOOSE x \in S : \A y \in S : x >= y

\* `depth_map.values().copied().max().unwrap_or(0)`
MaxChainLength(depth_map) ==
    MaxOf({depth_map[p] : p \in DOMAIN depth_map})

\* AffectedByDepth indexing the levels by depth instead of depth - 1
AffectedByDepth_Shifted(depth_map, max_chain_length) ==
    [d \in 1..max_chain_length |->
        SortedSeq({p \in DOMAIN depth_map : depth_map[p] = d + 1})]

\* level d - 1 of the result lists, sorted, the paths recorded at depth d
AffectedByDepth(depth_map, max_chain_length) ==
    [d \in 1..max_chain_length |->
        SortedSeq({p \in DOMAIN depth_map : depth_map[p] = d})]

compute_impact(target, max_depth) ==
    IF ~contains(target)
    THEN [NoImpact EXCEPT !.err = "NotInGraph", !.target = target,
                          !.max_depth = max_depth]
    ELSE
    LET seeded == BfsVisit([visited |-> {}, depth_map |-> <<>>, parent_map |-> <<>>,
                            queue |-> <<>>, pops |-> 0, exhausted |-> FALSE],
                           direct_dependents(target), 1, target, 1)
        b == BfsLoop(seeded, max_depth, StepLimit)
        max_chain_length == MaxChainLength(b.depth_map)
        affected_by_depth == AffectedByDepth(b.depth_map, max_chain_length)
        tree == build_impact_tree(target, max_depth)
    IN  [ok |-> TRUE, err |-> "", target |-> target, max_depth |-> max_depth,
         affected_by_depth |-> affected_by_depth,
         total_affected |-> Cardinality(b.visited),
         max_chain_length |-> max_chain_length,
         tree |-> tree.node,
         finished |-> ~b.exhausted /\ ~tree.t.exhausted,
         steps |-> Max(b.pops, tree.t.calls)]


----------------------------------------------------------------------------
\* config.rs, model/boundary.rs

\* Thresholds::default(); min_cohesion, fat_module_lines_per_export and
\* ownership thresholds are fractions <<numerator, denominator>>
DefaultThresholds ==
    [god_object_lines |-> 500,
     coupling_fanin |-> 5,
     boundary_violation_min |-> 2,
     max_dependency_depth |-> 5,
     min_cohesion |-> <<3, 10>>,
     fat_module_lines |-> 400,
     fat_module_private_functions |-> 8,
     fat_module_lines_per_export |-> <<100, 1>>]

\* default_ownership_threshold(): 0.5
default_ownership_threshold == <<5, 10>>

\* A Boundary; allowed_in is the set of module paths its glob patterns
\* match.
Boundary(threshold, allowed) ==
    [name |-> "Persistence",
     indicators |-> <<"sqlx::", "diesel::">>,
     ownership_threshold |-> threshold,
     allowed_in |-> allowed]

\* Boundary::is_allowed
is_allowed(boundary, path) == path \in boundary.allowed_in

DefaultConfig ==
    [thresholds |-> DefaultThresholds,
     boundary |-> Boundary(default_ownership_threshold, {}),
     expected_high_coupling |-> {}]

----------------------------------------------------------------------------
\* analysis/boundary.rs
\* A line of a file is the sequence of its pieces: an indicator, a quote
\* character, a blank, or other text.

\* the double quote, the single quote and the backtick
QuoteChars == {"dquote", "squote", "backtick"}

\* str::find: the position of the first occurrence, 0 for None
find(line, indicator) ==
    IF Contains(line, indicator)
    THEN CHOOSE i \in 1..Len(line) :
            /\ line[i] = indicator
            /\ \A j \in 1..(i - 1) : line[j] # indicator
    ELSE 0

RECURSIVE trim_end(_)
\* str::trim_end: without the blanks at the end
trim_end(s) ==
    IF s # <<>> /\ s[Len(s)] = " " THEN trim_end(SubSeq(s, 1, Len(s) - 1)) ELSE s

is_string_literal_definition(line, indicator) ==
    LET pos == find(line, indicator)
    IN  IF pos # 0
        THEN LET before == SubSeq(line, 1, pos - 1)
                 trimmed == trim_end(before)
             IN  trimmed # <<>> /\ trimmed[Len(trimmed)] \in QuoteChars
        ELSE FALSE

\* the loop over boundary.indicators for one line: the first indicator the
\* line contains outside a literal definition pushes a Location and breaks
LineHits(line, boundary) ==
    \E k \in 1..Len(boundary.indicators) :
        /\ Contains(line, boundary.indicators[k])
        /\ ~is_string_literal_definition(line, boundary.indicators[k])

\* the Locations pushed for one module: one per hit line, in line order
ScanModule(path) ==
    LET content == files[path]
        hit == SelectSeq([l \in 1..Len(content) |-> l],
                         LAMBDA l : LineHits(content[l], config.boundary))
    IN  [i \in 1..Len(hit) |-> Location(path, hit[i])]

\* occurrences_by_module: an entry exists only for a module with a hit
OccurrencesByModule(boundary) ==
    LET keys == {m \in DOMAIN files :
                    ~is_allowed(boundary, m) /\ ScanModule(m) # <<>>}
    IN  [m \in keys |-> ScanModule(m)]

\* the orders in which a HashMap with key set S may be iterated
IterationOrders(S) ==
    {s \in [1..Cardinality(S) -> S] : Range(s) = S}

RECURSIVE SumLens(_, _)
SumLens(occ, S) ==
    IF S = {} THEN 0
    ELSE LET m == CHOOSE x \in S : TRUE
         IN  Len(occ[m]) + SumLens(occ, S \ {m})

\* Iterator::max_by_key: the last element with the greatest key
MaxByKey(occ, iter) ==
    LET best == CHOOSE i \in 1..Len(iter) :
                    /\ \A j \in 1..Len(iter) : Len(occ[iter[j]]) <= Len(occ[iter[i]])
                    /\ \A j \in (i + 1)..Len(iter) : Len(occ[iter[j]]) < Len(occ[iter[i]])
    IN  iter[best]

\* OwnershipReached with a strict comparison
OwnershipExceeded(owner_count, total, t) ==
    owner_count * t[2] > t[1] * total

\* `ownership_ratio >= boundary.ownership_threshold`, the threshold being
\* the fraction t[1] / t[2]
OwnershipReached(owner_count, total, t) ==
    owner_count * t[2] >= t[1] * total

\* iter is the order in which occurrences_by_module is iterated
apply_ownership_filter(occ, boundary, iter) ==
    IF DOMAIN occ = {} THEN <<>>
    ELSE
    LET total_occurrences == SumLens(occ, DOMAIN occ)
        owner_path == MaxByKey(occ, iter)
        owner_count == Len(occ[owner_path])
    IN  IF total_occurrences = 0 THEN <<>>
        ELSE IF OwnershipReached(owner_count, total_occurrences,
                                 boundary.ownership_threshold)
        THEN Flatten([i \in 1..Len(iter) |->
                        IF iter[i] # owner_path THEN occ[iter[i]] ELSE <<>>])
        ELSE Flatten([i \in 1..Len(iter) |-> occ[iter[i]]])

\* IsViolation that asks for more modules than the minimum
IsViolation_MoreThanMin(locations, min) ==
    Cardinality({locations[i].path : i \in 1..Len(locations)}) > min

\* IsViolation that asks only for some module to remain
IsViolation_AnyModule(locations, min) ==
    Cardinality({locations[i].path : i \in 1..Len(locations)}) >= 1

\* `modules_affected.len() >= config.thresholds.boundary_violation_min`
IsViolation(locations, min) ==
    Cardinality({locations[i].path : i \in 1..Len(locations)}) >= min

\* the body of the loop over config.boundaries, for the configured boundary
detect_boundary_violations_with_fs(iter) ==
    LET boundary == config.boundary
        occ == OccurrencesByModule(boundary)
        filtered_occurrences == apply_ownership_filter(occ, boundary, iter)
    IN  [filtered |-> filtered_occurrences,
         issues |-> IF IsViolation(filtered_occurrences,
                                   config.thresholds.boundary_violation_min)
                    THEN <<boundary_violation(boundary.name, filtered_occurrences)>>
                    ELSE <<>>]


----------------------------------------------------------------------------
\* model/module.rs as the detectors read it.  A module's imports are the
\* imports that became its outgoing edges (crate:: imports, all of them
\* relative), `internal` further imports that count as internal, and one
\* import per entry of `external`, each entry naming the import's root
\* crate.  structs, functions, traits, interfaces and impls count the
\* definitions of that DefinitionKind, private_functions and
\* public_functions the Function definitions of that visibility, exports is
\* exports.len(), and test_file tells whether the module's path has one of
\* the test-file patterns.  Where the graph is built from the Module list,
\* path is the module's path as the sequence of its components and imports
\* lists its import strings, each as the sequence of its `::` segments.

PlainModule ==
    [lines |-> 10, structs |-> 0, functions |-> 1, traits |-> 0, impls |-> 0,
     hub |-> FALSE, internal |-> 0, external |-> <<>>,
     private_functions |-> 1, public_functions |-> 0, exports |-> 0,
     test_file |-> FALSE, interfaces |-> 0, path |-> <<>>, imports |-> <<>>]

----------------------------------------------------------------------------
\* model/issue.rs, continued

\* Issue::god_object; the message carries lines and responsibilities
god_object(path, lines, responsibilities) ==
    [kind |-> "GodObject",
     locations |-> <<Location(path, 0)>>,
     payload |-> <<lines, responsibilities>>]

\* Issue::deep_dependency_chain
deep_dependency_chain(chain, max_depth) ==
    [kind |-> "DeepDependencyChain",
     locations |-> [i \in 1..Len(chain) |-> Location(chain[i], 0)],
     payload |-> <<Len(chain), max_depth>>]

\* Issue::low_cohesion_v2; the message carries the score to two decimals,
\* the counts and the top crates
low_cohesion_v2(path, score, internal_imports, total_external, unique_crates, top) ==
    [kind |-> "LowCohesion",
     locations |-> <<Location(path, 0)>>,
     payload |-> <<score, internal_imports, total_external, unique_crates, top>>]

\* Issue::fat_module; the message carries lines, private functions and
\* exports
fat_module(path, lines, private_functions, public_functions, exports) ==
    [kind |-> "FatModule",
     locations |-> <<Location(path, 0)>>,
     payload |-> <<lines, private_functions, public_functions, exports>>]

----------------------------------------------------------------------------
\* analysis/god_object.rs

detect_responsibilities(module) ==
    LET specific ==
            (IF module.structs > 3
             THEN <<<<"data definitions", module.structs>>>> ELSE <<>>)
         \o (IF module.functions > 10
             THEN <<<<"business logic", module.functions>>>> ELSE <<>>)
         \o (IF module.traits > 0
             THEN <<<<"trait definitions", 0>>>> ELSE <<>>)
         \o (IF module.impls > 5
             THEN <<<<"implementations", module.impls>>>> ELSE <<>>)
    IN  IF specific = <<>> /\ module.lines >= 500
        THEN <<<<"large module", 0>>>>
        ELSE specific

detect_god_objects ==
    Flatten([m \in 1..nodes |->
        IF mods[m].lines < config.thresholds.god_object_lines THEN <<>>
        ELSE IF Len(detect_responsibilities(mods[m])) > 1
             THEN <<god_object(m, mods[m].lines, detect_responsibilities(mods[m]))>>
             ELSE <<>>])

----------------------------------------------------------------------------
\* analysis/coupling.rs

\* iter is the order in which the node_indices HashMap is iterated
detect_high_coupling(iter) ==
    Flatten([i \in 1..Len(iter) |->
        IF fan_in(iter[i]) >= config.thresholds.coupling_fanin
              /\ iter[i] \notin config.expected_high_coupling
        THEN <<high_coupling(iter[i], fan_in(iter[i]))>>
        ELSE <<>>])

----------------------------------------------------------------------------
\* analysis/depth.rs

RECURSIVE Explore(_, _, _, _, _)
\* petgraph::algo::all_simple_paths, called at analysis/depth.rs:29: the
\* paths found while iterating `children`, the unvisited rest of the
\* successors of the last node of `visited`
Explore(visited, children, to, min_length, max_length) ==
    IF children = <<>> THEN <<>>
    ELSE
    LET child == Head(children)
        rest == Tail(children)
        found == IF Len(visited) >= min_length
                 THEN <<Append(visited, to)>> ELSE <<>>
    IN  IF Len(visited) < max_length
        THEN IF child = to
             THEN found \o Explore(visited, rest, to, min_length, max_length)
             ELSE IF ~Contains(visited, child)
             THEN Explore(Append(visited, child), Outgoing(child), to,
                          min_length, max_length)
                    \o Explore(visited, rest, to, min_length, max_length)
             ELSE Explore(visited, rest, to, min_length, max_length)
        ELSE IF child = to \/ Contains(rest, to) THEN found ELSE <<>>

\* all_simple_paths admitting one more intermediate node
all_simple_paths_OneMore(from, to, min_intermediate_nodes, max_intermediate_nodes) ==
    Explore(<<from>>, Outgoing(from), to,
            min_intermediate_nodes + 1, max_intermediate_nodes + 2)

all_simple_paths(from, to, min_intermediate_nodes, max_intermediate_nodes) ==
    Explore(<<from>>, Outgoing(from), to,
            min_intermediate_nodes + 1, max_intermediate_nodes + 1)

RECURSIVE Dedup(_, _)
\* the reported_chains test: a chain already reported is skipped
Dedup(paths, reported) ==
    IF paths = <<>> THEN <<>>
    ELSE IF Head(paths) \in reported THEN Dedup(Tail(paths), reported)
    ELSE <<Head(paths)>> \o Dedup(Tail(paths), reported \cup {Head(paths)})

RECURSIVE SortLongestFirst(_, _)
\* the stable sort_by on the number of locations, longest first
SortLongestFirst(found, len) ==
    IF len = 0 THEN <<>>
    ELSE SelectSeq(found, LAMBDA i : Len(i.locations) = len)
            \o SortLongestFirst(found, len - 1)

\* a truncation that keeps the last n
Truncate_Last(s, n) == IF Len(s) > n THEN SubSeq(s, Len(s) - n + 1, Len(s)) ELSE s

\* `issues.truncate(10)`
Truncate(s, n) == IF Len(s) > n THEN SubSeq(s, 1, n) ELSE s

\* iter is the order in which the node_indices HashMap is iterated
detect_deep_dependency_chains(iter) ==
    LET max_depth == config.thresholds.max_dependency_depth
        paths == Flatten([i \in 1..Len(iter) |->
                    Flatten([j \in 1..Len(iter) |->
                        IF iter[i] = iter[j] THEN <<>>
                        ELSE all_simple_paths(iter[i], iter[j], 0, max_depth + 2)])])
        deep == Dedup(SelectSeq(paths, LAMBDA path : Len(path) > max_depth), {})
        found == [i \in 1..Len(deep) |-> deep_dependency_chain(deep[i], max_depth)]
    IN  Truncate(SortLongestFirst(found, nodes), 10)

----------------------------------------------------------------------------
\* analysis/cohesion.rs

\* the score as printed with {:.2} and parsed back by
\* extract_cohesion_score, in hundredths; a tie is exact in binary only for
\* odd multiples of 1/8 and goes to the even neighbour
extract_cohesion_score(score) ==
    LET q == (100 * score[1]) \div score[2]
        r == (100 * score[1]) % score[2]
    IN  IF 2 * r > score[2] THEN q + 1
        ELSE IF 2 * r < score[2] THEN q
        ELSE IF q % 2 = 0 THEN q ELSE q + 1

CountOf(s, x) == Len(SelectSeq(s, LAMBDA y : y = x))

\* top_crates: the stable sort by count, most used first, of the crates in
\* the iteration order of the external_crates HashMap; the first n
top_crates(external, crateIter, n) ==
    LET RECURSIVE ByCount(_)
        ByCount(c) ==
            IF c = 0 THEN <<>>
            ELSE SelectSeq(crateIter, LAMBDA k : CountOf(external, k) = c)
                    \o ByCount(c - 1)
    IN  Truncate(ByCount(Len(external)), n)

\* cohesion_score with the number of external imports as the penalty
cohesion_score_PerImport(internal_imports, external) ==
    <<internal_imports + 1, internal_imports + 1 + Len(external)>>

\* `internal_weight / (internal_weight + diversity_penalty)` as a fraction;
\* external lists the root crate of every external import
cohesion_score(internal_imports, external) ==
    LET internal_weight == internal_imports + 1
        diversity_penalty == Cardinality(Range(external))
    IN  <<internal_weight, internal_weight + diversity_penalty>>

\* the issue, if any, for module m with these many internal imports and these
\* root crates of its external imports; crateIter is the iteration order of
\* its external_crates HashMap
CohesionIssueOf(m, internal_imports, external, crateIter) ==
    LET module == mods[m]
        total_external == Len(external)
        unique_external_crates == Cardinality(Range(external))
        score == cohesion_score(internal_imports, external)
        min_cohesion == config.thresholds.min_cohesion
    IN  IF module.hub THEN <<>>
        ELSE IF internal_imports + total_external = 0 THEN <<>>
        ELSE IF unique_external_crates = 0 THEN <<>>
        ELSE IF score[1] * min_cohesion[2] < min_cohesion[1] * score[2]
                  /\ unique_external_crates >= 3
        THEN <<low_cohesion_v2(m, score, internal_imports, total_external,
                               unique_external_crates,
                               top_crates(external, crateIter, 3))>>
        ELSE <<>>

\* the issue, if any, for module m whose imports are given by their count
\* (internal) and their root crates (external)
CohesionIssue(m, crateIter) ==
    CohesionIssueOf(m, fan_out(m) + mods[m].internal, mods[m].external, crateIter)

RECURSIVE InsertByScore(_, _)
InsertByScore(sorted, issue) ==
    IF sorted = <<>> THEN <<issue>>
    ELSE IF extract_cohesion_score(issue.payload[1])
               < extract_cohesion_score(Head(sorted).payload[1])
    THEN <<issue>> \o sorted
    ELSE <<Head(sorted)>> \o InsertByScore(Tail(sorted), issue)

RECURSIVE SortByScore(_)
\* the stable sort_by on the parsed score, lowest first
SortByScore(found) ==
    IF found = <<>> THEN <<>>
    ELSE InsertByScore(SortByScore(SubSeq(found, 1, Len(found) - 1)),
                       found[Len(found)])

\* crateIters[m] is the iteration order of module m's external_crates
detect_low_cohesion(crateIters) ==
    SortByScore(Flatten([m \in 1..nodes |-> CohesionIssue(m, crateIters[m])]))

----------------------------------------------------------------------------
\* analysis/complexity.rs

\* is_test_file(&module.path)
is_test_file(m) == mods[m].test_file

\* ModuleComplexity::compute; lines_per_export is the fraction
\* lines / max(exports, 1)
ModuleComplexity(m) ==
    [path |-> m,
     lines |-> mods[m].lines,
     private_functions |-> mods[m].private_functions,
     public_functions |-> mods[m].public_functions,
     exports |-> mods[m].exports,
     lines_per_export |-> <<mods[m].lines, Max(mods[m].exports, 1)>>]

\* is_fat with lines_per_export compared by >=
is_fat_AtLeast(complexity, thresholds) ==
    /\ complexity.private_functions >= thresholds.fat_module_private_functions
    /\ complexity.lines_per_export[1] * thresholds.fat_module_lines_per_export[2]
          >= thresholds.fat_module_lines_per_export[1] * complexity.lines_per_export[2]

\* `private_functions >= min_private_functions
\*    && lines_per_export > max_lines_per_export`
is_fat(complexity, thresholds) ==
    /\ complexity.private_functions >= thresholds.fat_module_private_functions
    /\ complexity.lines_per_export[1] * thresholds.fat_module_lines_per_export[2]
          > thresholds.fat_module_lines_per_export[1] * complexity.lines_per_export[2]

detect_fat_modules ==
    Flatten([m \in 1..nodes |->
        IF is_test_file(m) THEN <<>>
        ELSE LET complexity == ModuleComplexity(m)
             IN  IF complexity.lines < config.thresholds.fat_module_lines THEN <<>>
                 ELSE IF is_fat(complexity, config.thresholds)
                 THEN <<fat_module(m, complexity.lines, complexity.private_functions,
                                   complexity.public_functions, complexity.exports)>>
                 ELSE <<>>])

----------------------------------------------------------------------------
\* analysis/mod.rs

\* analyze_with_fs from the Module list on: the graph is built, with a new
\* node_indices HashMap iterated in the order nodeIter, and the six
\* detectors run in turn
analyze_with_fs(nodeIter, occIter, crateIters) ==
    detect_circular_dependencies
        \o detect_god_objects
        \o detect_high_coupling(nodeIter)
        \o detect_boundary_violations_with_fs(occIter).issues
        \o detect_deep_dependency_chains(nodeIter)
        \o detect_low_cohesion(crateIters)


----------------------------------------------------------------------------
\* The graph and impact entry points, over every graph within the bounds

NoOrder == [ok |-> FALSE, seq |-> <<>>]

EdgeLists(n) ==
    UNION {[1..k -> (1..n) \X (1..n)] : k \in 0..MaxEdges}

DepthLimits == {None} \cup {Some(m) : m \in 0..MaxDepthLimit}

Init ==
    /\ nodes \in 0..MaxNodes
    /\ edges \in EdgeLists(nodes)
    /\ op = "build"
    /\ issues = <<>>
    /\ order = NoOrder
    /\ impact = NoImpact
    /\ files = [m \in 1..nodes |-> <<>>]
    /\ config = DefaultConfig
    /\ filtered = <<>>
    /\ mods = [m \in 1..nodes |-> PlainModule]
    /\ walk = NoWalk
    /\ glob = NoGlob
    /\ graph_data = NoGraphData

DetectCircular ==
    /\ op' = "detect_circular_dependencies"
    /\ issues' = detect_circular_dependencies
    /\ order' = NoOrder
    /\ impact' = NoImpact
    /\ UNCHANGED <<graph_data, glob, walk, nodes, edges, files, config, filtered, mods>>

TopologicalOrder ==
    /\ op' = "topological_order"
    /\ order' = topological_order
    /\ issues' = <<>>
    /\ impact' = NoImpact
    /\ UNCHANGED <<graph_data, glob, walk, nodes, edges, files, config, filtered, mods>>

TopologicalOrderWithCycles ==
    /\ op' = "topological_order_with_cycles"
    /\ order' = [ok |-> TRUE, seq |-> topological_order_with_cycles]
    /\ issues' = <<>>
    /\ impact' = NoImpact
    /\ UNCHANGED <<graph_data, glob, walk, nodes, edges, files, config, filtered, mods>>

ComputeImpact ==
    \E target \in 1..(MaxNodes + 1), max_depth \in DepthLimits :
        /\ op' = "compute_impact"
        /\ impact' = compute_impact(target, max_depth)
        /\ issues' = <<>>
        /\ order' = NoOrder
        /\ UNCHANGED <<graph_data, glob, walk, nodes, edges, files, config, filtered, mods>>

Next ==
    \/ DetectCircular
    \/ TopologicalOrder
    \/ TopologicalOrderWithCycles

\* the detector and the orderings, on every graph within the bounds
Spec == Init /\ [][Next]_vars

NextImpact == ComputeImpact

\* impact queries, on every graph within the bounds
SpecImpact == Init /\ [][NextImpact]_vars


----------------------------------------------------------------------------
\* Claims about the circular-dependency detector and the orderings

IsPermutation(seq) ==
    /\ Len(seq) = nodes
    /\ Range(seq) = NodeIds

Pos(seq, x) == CHOOSE i \in 1..Len(seq) : seq[i] = x

NoDuplicates(seq) == \A i, j \in 1..Len(seq) : seq[i] = seq[j] => i = j

\* C1: detect_circular_dependencies returns exactly one issue for every
\* strongly connected component that has two or more nodes or is a single
\* node with a self-loop, its locations being the members of the component,
\* each once; no other issue is returned, so an acyclic graph gives none.
C1_OneIssuePerCycle ==
    op = "detect_circular_dependencies" =>
        /\ \A i \in 1..Len(issues) :
              /\ issues[i].kind = "CircularDependency"
              /\ issues[i].locations # <<>>
              /\ NoDuplicates(issues[i].locations)
              /\ \A a \in LocationPaths(issues[i]) :
                    OnCycle(a) /\ LocationPaths(issues[i]) = ComponentOf(a)
        /\ \A a \in NodeIds :
              OnCycle(a) =>
                Cardinality({i \in 1..Len(issues) : a \in LocationPaths(issues[i])}) = 1
        /\ Acyclic => issues = <<>>

\* the cycle A -> B -> C -> A gives one issue whose locations are {A, B, C}
C1_Witness ==
    /\ op = "detect_circular_dependencies"
    /\ nodes = 3
    /\ edges = <<<<1, 2>>, <<2, 3>>, <<3, 1>>>>
    /\ Len(issues) = 1
    /\ LocationPaths(issues[1]) = {1, 2, 3}

\* C2: topological_order_with_cycles returns every node exactly once, and an
\* edge between two nodes that lie on no cycle has its source before its
\* target.
C2_TotalOrder ==
    op = "topological_order_with_cycles" =>
        /\ IsPermutation(order.seq)
        /\ \A a, b \in NodeIds :
              (HasEdge(a, b) /\ ~SameComponent(a, b) /\ ~OnCycle(a) /\ ~OnCycle(b))
                 => Pos(order.seq, a) < Pos(order.seq, b)

----------------------------------------------------------------------------
\* Claims about compute_impact

RECURSIVE RevWithin(_, _)
\* the nodes within k hops of t along reverse import edges (t itself at 0)
RevWithin(t, k) ==
    IF k = 0 THEN {t}
    ELSE LET R == RevWithin(t, k - 1)
         IN  R \cup {a \in NodeIds : \E b \in R : HasEdge(a, b)}

\* length of the shortest path from t to m along reverse import edges
RevDistance(t, m) ==
    CHOOSE k \in 0..nodes :
        /\ m \in RevWithin(t, k)
        /\ \A j \in 0..(k - 1) : m \notin RevWithin(t, j)

Level(k) == Range(impact.affected_by_depth[k])

Listed == UNION {Level(k) : k \in 1..Len(impact.affected_by_depth)}

Ran == op = "compute_impact"

\* C4: without a depth limit, a module listed in affected_by_depth[k] (k
\* counted from 0) is at distance exactly k + 1 from the target along
\* reverse import edges.
C4_ShortestDepth ==
    (Ran /\ impact.ok /\ impact.max_depth = None) =>
        \A k \in 1..Len(impact.affected_by_depth) :
            \A m \in Level(k) : RevDistance(impact.target, m) = k

\* C5: compute_impact fails with NotInGraph, and with no partial result,
\* exactly when the target is not a node; for a node it returns a result
\* after finitely many steps, also on cycles and self-loops.
C5_NotInGraphOrTerminates ==
    Ran =>
        /\ impact.ok <=> contains(impact.target)
        /\ ~impact.ok =>
              /\ impact.err = "NotInGraph"
              /\ impact.affected_by_depth = <<>>
              /\ impact.total_affected = 0
              /\ impact.tree = <<>>
        /\ impact.ok => impact.finished

\* a target that imports itself and lies on a longer cycle as well
C5_Witness ==
    /\ Ran /\ impact.ok /\ impact.finished
    /\ HasEdge(impact.target, impact.target)
    /\ \E a \in NodeIds \ {impact.target} : SameComponent(a, impact.target)
    /\ impact.steps >= 2

\* C6: with a depth limit m, affected_by_depth has at most m levels and
\* max_chain_length is at most m.
C6_DepthLimit ==
    (Ran /\ impact.ok /\ impact.max_depth # None) =>
        /\ Len(impact.affected_by_depth) <= impact.max_depth[1]
        /\ impact.max_chain_length <= impact.max_depth[1]

\* C7: total_affected is the number of distinct modules listed, no module
\* is listed twice, max_chain_length is the greatest depth of a listed
\* module, and the level list is empty (with max_chain_length 0) exactly
\* when the target has no dependents.
C7_Totals ==
    (Ran /\ impact.ok) =>
        /\ impact.total_affected = Cardinality(Listed)
        /\ \A k \in 1..Len(impact.affected_by_depth) :
              /\ NoDuplicates(impact.affected_by_depth[k])
              /\ \A j \in 1..Len(impact.affected_by_depth) :
                    j # k => Level(j) \cap Level(k) = {}
        /\ impact.max_chain_length = Len(impact.affected_by_depth)
        /\ impact.max_chain_length > 0 => Level(impact.max_chain_length) # {}
        /\ (impact.max_chain_length = 0 /\ impact.affected_by_depth = <<>>)
              <=> direct_dependents(impact.target) = <<>>

\* two dependents at two different depths
C7_Witness ==
    /\ Ran /\ impact.ok
    /\ impact.max_chain_length = 2
    /\ impact.total_affected = 2
    /\ Len(impact.affected_by_depth[1]) = 1
    /\ Len(impact.affected_by_depth[2]) = 1


----------------------------------------------------------------------------
\* The boundary detector, over files with every number of hits

\* a line that uses the boundary, one that defines an indicator in a string
\* literal, and one with neither
CodeLine == <<"sqlx::", "query">>
LiteralLine == <<"dquote", "sqlx::", "dquote">>
PlainLine == <<"fn", " ", "main">>

CodeLines(n) == [i \in 1..n |-> CodeLine]

FileShapes ==
    {CodeLines(n) : n \in 0..MaxHits}
        \cup {<<LiteralLine, CodeLine>>, <<PlainLine, CodeLine, PlainLine, CodeLine>>}

\* ownership thresholds 0.0, 0.1, ..., 1.0
Thresholds == {<<t, 10>> : t \in 0..10}

InitBoundary ==
    /\ nodes \in 1..MaxScanned
    /\ edges = <<>>
    /\ op = "build"
    /\ issues = <<>>
    /\ order = NoOrder
    /\ impact = NoImpact
    /\ files \in [1..nodes -> FileShapes]
    /\ \E t \in Thresholds, allowed \in {{}, {1}},
          min \in 0..DefaultThresholds.boundary_violation_min :
          config = [DefaultConfig EXCEPT
                      !.thresholds.boundary_violation_min = min,
                      !.boundary = Boundary(t, allowed)]
    /\ filtered = <<>>
    /\ mods = [m \in 1..nodes |-> PlainModule]
    /\ walk = NoWalk
    /\ glob = NoGlob
    /\ graph_data = NoGraphData

DetectBoundary ==
    \E iter \in IterationOrders(DOMAIN OccurrencesByModule(config.boundary)) :
        LET r == detect_boundary_violations_with_fs(iter)
        IN  /\ op' = "detect_boundary_violations"
            /\ issues' = r.issues
            /\ filtered' = r.filtered
            /\ order' = NoOrder
            /\ impact' = NoImpact
            /\ UNCHANGED <<graph_data, glob, walk, nodes, edges, files, config, mods>>

NextBoundary == DetectBoundary

SpecBoundary == InitBoundary /\ [][NextBoundary]_vars

----------------------------------------------------------------------------
\* Claims about the ownership filter and the boundary detector

Scanned == op = "detect_boundary_violations"

Hits(m) == Len(ScanModule(m))

\* the modules with surviving hits are exactly x and y
TwoModules(x, y) ==
    /\ x # y
    /\ DOMAIN OccurrencesByModule(config.boundary) = {x, y}

\* none of x's hits is among the locations the filter returned
Excluded(x) == \A i \in 1..Len(filtered) : filtered[i].path # x

\* Hits(x) / (Hits(x) + Hits(y)) >= T
RatioReached(x, y) ==
    LET T == config.boundary.ownership_threshold
    IN  Hits(x) * T[2] >= T[1] * (Hits(x) + Hits(y))

\* C9 as stated: with hits in exactly two modules X and Y, X's hits are
\* excluded if and only if N / (N + M) >= T.
C9_ExcludedIffRatio ==
    Scanned =>
        \A x, y \in 1..nodes :
            TwoModules(x, y) => (Excluded(x) <=> RatioReached(x, y))

\* C9 as amended: with hits in exactly two modules, the hits of the module
\* with more hits are excluded if and only if its share N / (N + M) is at
\* least T (they are excluded at equality) and the hits of the module with
\* fewer hits are never excluded; with equally many hits, the hits of
\* exactly one of the two are excluded if and only if 1/2 >= T.
C9_OwnerExcludedIffRatio ==
    Scanned =>
        \A x, y \in 1..nodes :
            TwoModules(x, y) =>
                /\ Hits(x) > Hits(y) =>
                      /\ Excluded(x) <=> RatioReached(x, y)
                      /\ ~Excluded(y)
                /\ Hits(x) = Hits(y) =>
                      /\ ~(Excluded(x) /\ Excluded(y))
                      /\ (Excluded(x) \/ Excluded(y)) <=> RatioReached(x, y)

\* the share of the larger module equals the threshold and it is excluded
C9_Witness ==
    /\ Scanned
    /\ \E x, y \in 1..nodes :
          /\ TwoModules(x, y)
          /\ Hits(x) > Hits(y)
          /\ Hits(x) * config.boundary.ownership_threshold[2]
                = config.boundary.ownership_threshold[1] * (Hits(x) + Hits(y))
          /\ Excluded(x)
          /\ filtered # <<>>

\* 8 hits in one module and 2 in the other, default minimum module count
Scenario(big, small) ==
    /\ nodes = 2
    /\ TwoModules(big, small)
    /\ Hits(big) = 8
    /\ Hits(small) = 2
    /\ config.thresholds.boundary_violation_min
          = DefaultThresholds.boundary_violation_min

AllLocations(issue) == Range(issue.locations)

\* C10 as stated: with threshold 0.5 an issue is emitted whose locations
\* are the 2 hits of the smaller module; with 0.9 an issue with all 10 hits.
C10_ScenarioIssue ==
    Scanned =>
        \A big, small \in 1..nodes :
            Scenario(big, small) =>
                /\ config.boundary.ownership_threshold = <<5, 10>> =>
                      /\ Len(issues) = 1
                      /\ Len(issues[1].locations) = 2
                      /\ AllLocations(issues[1]) = Range(ScanModule(small))
                /\ config.boundary.ownership_threshold = <<9, 10>> =>
                      /\ Len(issues) = 1
                      /\ Len(issues[1].locations) = 10
                      /\ AllLocations(issues[1])
                            = Range(ScanModule(big)) \cup Range(ScanModule(small))

\* C10 as amended: with threshold 0.5 the 8 hits of the larger module are
\* excluded, the 2 hits of the smaller module are all that remains, and no
\* issue is emitted because one module is below the minimum module count
\* of 2; with 0.9 one issue is emitted, with all 10 hits.
C10_ScenarioNoIssueWithOwner ==
    Scanned =>
        \A big, small \in 1..nodes :
            Scenario(big, small) =>
                /\ config.boundary.ownership_threshold = <<5, 10>> =>
                      /\ issues = <<>>
                      /\ Len(filtered) = 2
                      /\ Range(filtered) = Range(ScanModule(small))
                /\ config.boundary.ownership_threshold = <<9, 10>> =>
                      /\ Len(issues) = 1
                      /\ issues[1].kind = "BoundaryViolation"
                      /\ Len(issues[1].locations) = 10
                      /\ AllLocations(issues[1])
                            = Range(ScanModule(big)) \cup Range(ScanModule(small))

\* the scenario at threshold 0.5 after detection
C10_Witness ==
    /\ Scanned
    /\ \E big, small \in 1..nodes : Scenario(big, small)
    /\ config.boundary.ownership_threshold = <<5, 10>>
    /\ issues = <<>>
    /\ Len(filtered) = 2


----------------------------------------------------------------------------
\* The full detector suite, run repeatedly on one unchanged input

\* 500 lines, 4 structs and 11 functions: two responsibilities
GodModule ==
    [PlainModule EXCEPT !.lines = 500, !.structs = 4, !.functions = 11]

\* imports from three crates, one of them twice
ScatteredModule ==
    [PlainModule EXCEPT !.external = <<"serde", "serde", "tokio", "regex">>]

\* 600 lines, 12 private and 2 public functions, 1 export
FatModule ==
    [PlainModule EXCEPT !.lines = 600, !.functions = 14,
                        !.private_functions = 12, !.public_functions = 2,
                        !.exports = 1]

SuiteModules == {PlainModule, GodModule, ScatteredModule, FatModule}

SuiteFiles == {CodeLines(n) : n \in 0..2}

\* a configuration whose thresholds graphs of a few modules reach
TightConfig ==
    [DefaultConfig EXCEPT !.thresholds.coupling_fanin = 1,
                          !.thresholds.max_dependency_depth = 1]

SuiteEdgeLists(n) ==
    UNION {[1..k -> (1..n) \X (1..n)] : k \in 0..MaxSuiteEdges}

InitSuite ==
    /\ nodes \in 1..MaxSuiteModules
    /\ edges \in SuiteEdgeLists(nodes)
    /\ op = "build"
    /\ issues = <<>>
    /\ order = NoOrder
    /\ impact = NoImpact
    /\ files \in [1..nodes -> SuiteFiles]
    /\ config \in {DefaultConfig, TightConfig}
    /\ filtered = <<>>
    /\ mods \in [1..nodes -> SuiteModules]
    /\ walk = NoWalk
    /\ glob = NoGlob
    /\ graph_data = NoGraphData

\* for every module, an iteration order of its external_crates HashMap
CrateIterations ==
    LET orders == UNION {IterationOrders(Range(mods[m].external)) : m \in NodeIds}
    IN  {f \in [NodeIds -> orders] :
            \A m \in NodeIds : f[m] \in IterationOrders(Range(mods[m].external))}

Analyze ==
    \E nodeIter \in IterationOrders(NodeIds),
       occIter \in IterationOrders(DOMAIN OccurrencesByModule(config.boundary)),
       crateIters \in CrateIterations :
        /\ op' = "analyze_with_fs"
        /\ issues' = analyze_with_fs(nodeIter, occIter, crateIters)
        /\ filtered' = <<>>
        /\ order' = NoOrder
        /\ impact' = NoImpact
        /\ UNCHANGED <<graph_data, glob, walk, nodes, edges, files, config, mods>>

NextSuite == Analyze

SpecSuite == InitSuite /\ [][NextSuite]_vars

\* the kinds and locations of an issue sequence, in order
KindsAndLocations(found) ==
    [i \in 1..Len(found) |-> <<found[i].kind, found[i].locations>>]

\* C8: a second run of the detector suite on the unchanged Module list,
\* configuration and files returns the Issue sequence of the first run:
\* the same issues in the same order, with the same locations in the same
\* order.
C8_Idempotent ==
    [][(op = "analyze_with_fs" /\ op' = "analyze_with_fs")
          => KindsAndLocations(issues') = KindsAndLocations(issues)]_vars

----------------------------------------------------------------------------
\* Claims about the emission rule of the boundary detector

\* the modules in which the boundary is crossed: not allowed, one hit or more
Crossing == {m \in 1..nodes : m \notin config.boundary.allowed_in /\ Hits(m) > 0}

RECURSIVE TotalHits(_)
TotalHits(S) ==
    IF S = {} THEN 0
    ELSE LET m == CHOOSE x \in S : TRUE
         IN  Hits(m) + TotalHits(S \ {m})

\* some module's share of all hits is at least the ownership threshold
HasOwner ==
    LET T == config.boundary.ownership_threshold
    IN  \E m \in Crossing : Hits(m) * T[2] >= T[1] * TotalHits(Crossing)

\* the number of distinct modules that keep hits after ownership filtering
RemainingModules ==
    IF HasOwner THEN Cardinality(Crossing) - 1 ELSE Cardinality(Crossing)

\* C11: for the configured boundary the detector emits at most one issue,
\* a BoundaryViolation, and emits it if and only if the number of distinct
\* modules that keep hits after ownership filtering is at least
\* boundary_violation_min; with the default minimum, a boundary crossed in
\* only one module gives no issue.
C11_IssueIffEnoughModules ==
    Scanned =>
        /\ Len(issues) <= 1
        /\ Len(issues) = 1 <=>
              RemainingModules >= config.thresholds.boundary_violation_min
        /\ \A i \in 1..Len(issues) : issues[i].kind = "BoundaryViolation"
        /\ (Cardinality(Crossing) = 1
              /\ config.thresholds.boundary_violation_min
                    = DefaultThresholds.boundary_violation_min)
              => issues = <<>>

\* two modules cross the boundary, neither owns it, and the issue is emitted
C11_Witness ==
    /\ Scanned
    /\ config.thresholds.boundary_violation_min = 2
    /\ Cardinality(Crossing) = 2
    /\ ~HasOwner
    /\ Len(issues) = 1

----------------------------------------------------------------------------
\* detect_fat_modules, over modules around each of its thresholds

\* 2 public functions; line counts, private-function counts and export
\* counts on both sides of the default and of the stricter thresholds
FatShapes ==
    {[PlainModule EXCEPT !.lines = l, !.private_functions = p,
                         !.public_functions = 2, !.functions = p + 2,
                         !.exports = e, !.test_file = t] :
        l \in {399, 400, 600}, p \in {7, 8, 12}, e \in {0, 1, 6, 20},
        t \in BOOLEAN}

\* thresholds of 600 lines, 12 private functions and 30 lines per export
StrictFatConfig ==
    [DefaultConfig EXCEPT !.thresholds.fat_module_lines = 600,
                          !.thresholds.fat_module_private_functions = 12,
                          !.thresholds.fat_module_lines_per_export = <<30, 1>>]

InitFat ==
    /\ nodes \in 1..MaxFatModules
    /\ edges = <<>>
    /\ op = "build"
    /\ issues = <<>>
    /\ order = NoOrder
    /\ impact = NoImpact
    /\ files = [m \in 1..nodes |-> <<>>]
    /\ config \in {DefaultConfig, StrictFatConfig}
    /\ filtered = <<>>
    /\ mods \in [1..nodes -> FatShapes]
    /\ walk = NoWalk
    /\ glob = NoGlob
    /\ graph_data = NoGraphData

DetectFatModules ==
    /\ op' = "detect_fat_modules"
    /\ issues' = detect_fat_modules
    /\ filtered' = <<>>
    /\ order' = NoOrder
    /\ impact' = NoImpact
    /\ UNCHANGED <<graph_data, glob, walk, nodes, edges, files, config, mods>>

NextFat == DetectFatModules

SpecFat == InitFat /\ [][NextFat]_vars

\* the issues whose (only) location is module m
IssuesAt(m) == {i \in 1..Len(issues) : LocationPaths(issues[i]) = {m}}

\* module m meets the three thresholds and is no test file
FatByDefinition(m) ==
    LET t == config.thresholds
        per_export == t.fat_module_lines_per_export
        exports == IF mods[m].exports = 0 THEN 1 ELSE mods[m].exports
    IN  /\ ~mods[m].test_file
        /\ mods[m].lines >= t.fat_module_lines
        /\ mods[m].private_functions >= t.fat_module_private_functions
        /\ mods[m].lines * per_export[2] > per_export[1] * exports

\* C12: detect_fat_modules flags a module (with one FatModule issue) if and
\* only if it is no test file, it has at least fat_module_lines lines and at
\* least fat_module_private_functions private functions, and its lines
\* divided by max(exports, 1) exceed fat_module_lines_per_export; with the
\* defaults 400, 8 and 100, a module of 600 lines with 12 private functions
\* and 1 export is flagged and a module of 600 lines with 20 exports is not.
C12_FatIffThresholds ==
    op = "detect_fat_modules" =>
        /\ \A i \in 1..Len(issues) :
              /\ issues[i].kind = "FatModule"
              /\ Len(issues[i].locations) = 1
              /\ LocationPaths(issues[i]) \subseteq NodeIds
        /\ \A m \in NodeIds :
              /\ Cardinality(IssuesAt(m)) = (IF FatByDefinition(m) THEN 1 ELSE 0)
              /\ (config = DefaultConfig /\ ~mods[m].test_file
                     /\ mods[m].lines = 600 /\ mods[m].private_functions = 12
                     /\ mods[m].exports = 1)
                    => IssuesAt(m) # {}
              /\ (config = DefaultConfig /\ mods[m].lines = 600
                     /\ mods[m].exports = 20)
                    => IssuesAt(m) = {}

\* the stated scenario: under the defaults, 600 lines, 12 private functions
\* and 1 export flagged next to 600 lines and 20 exports not flagged
C12_Witness ==
    /\ op = "detect_fat_modules"
    /\ config = DefaultConfig
    /\ nodes = 2
    /\ \E a, b \in NodeIds :
          /\ ~mods[a].test_file /\ mods[a].lines = 600
          /\ mods[a].private_functions = 12 /\ mods[a].exports = 1
          /\ ~mods[b].test_file /\ mods[b].lines = 600
          /\ mods[b].private_functions = 12 /\ mods[b].exports = 20
          /\ IssuesAt(a) # {} /\ IssuesAt(b) = {}
          /\ Len(issues) = 1

----------------------------------------------------------------------------
\* Claims about the aggregation of the detectors

\* an issue as far as aggregation is concerned: its kind and the set of its
\* locations
Key(issue) == <<issue.kind, Range(issue.locations)>>

Keys(found) == {Key(found[i]) : i \in 1..Len(found)}

\* what the seven detectors produce for the current Module list, graph,
\* files and configuration, the HashMaps being iterated in the given orders
SevenDetectors(nodeIter, occIter, crateIters) ==
    Keys(detect_circular_dependencies)
        \cup Keys(detect_god_objects)
        \cup Keys(detect_high_coupling(nodeIter))
        \cup Keys(detect_boundary_violations_with_fs(occIter).issues)
        \cup Keys(detect_low_cohesion(crateIters))
        \cup Keys(detect_deep_dependency_chains(nodeIter))
        \cup Keys(detect_fat_modules)

\* C13: the issues of a full analysis run are exactly the issues the seven
\* detectors (circular dependencies, god objects, high coupling, boundary
\* violations, low cohesion, deep dependency chains, fat modules) produce
\* for the run's Module list and graph.
C13_AllSevenDetectors ==
    op = "analyze_with_fs" =>
        \E nodeIter \in IterationOrders(NodeIds),
           occIter \in IterationOrders(DOMAIN OccurrencesByModule(config.boundary)),
           crateIters \in CrateIterations :
            Keys(issues) = SevenDetectors(nodeIter, occIter, crateIters)

----------------------------------------------------------------------------
\* detect_low_cohesion, over modules around its two conditions

\* no external import, imports from one, two and three crates, and four
\* imports from three crates; 0 to 2 further internal imports; hub or not
CohesionShapes ==
    {[PlainModule EXCEPT !.hub = h, !.internal = i, !.external = e] :
        h \in BOOLEAN, i \in 0..2,
        e \in {<<>>, <<"serde">>, <<"serde", "tokio">>,
               <<"serde", "tokio", "regex">>,
               <<"serde", "serde", "tokio", "regex">>}}

\* min_cohesion 0.3 (the default), 0.4 and 0.5
CohesionConfigs ==
    {[DefaultConfig EXCEPT !.thresholds.min_cohesion = <<t, 10>>] : t \in {3, 4, 5}}

InitCohesion ==
    /\ nodes \in 1..MaxCohesionModules
    /\ edges \in UNION {[1..k -> (1..nodes) \X (1..nodes)] : k \in 0..1}
    /\ op = "build"
    /\ issues = <<>>
    /\ order = NoOrder
    /\ impact = NoImpact
    /\ files = [m \in 1..nodes |-> <<>>]
    /\ config \in CohesionConfigs
    /\ filtered = <<>>
    /\ mods \in [1..nodes -> CohesionShapes]
    /\ walk = NoWalk
    /\ glob = NoGlob
    /\ graph_data = NoGraphData

RECURSIVE ExternalCrateOrders(_)
\* for each of the first n modules, an iteration order of its
\* external_crates HashMap
ExternalCrateOrders(n) ==
    IF n = 0 THEN {<<>>}
    ELSE {Append(f, o) : f \in ExternalCrateOrders(n - 1),
                         o \in IterationOrders(Range(mods[n].external))}

DetectLowCohesion ==
    \E crateIters \in ExternalCrateOrders(nodes) :
        /\ op' = "detect_low_cohesion"
        /\ issues' = detect_low_cohesion(crateIters)
        /\ filtered' = <<>>
        /\ order' = NoOrder
        /\ impact' = NoImpact
        /\ UNCHANGED <<graph_data, glob, walk, nodes, edges, files, config, mods>>

NextCohesion == DetectLowCohesion

SpecCohesion == InitCohesion /\ [][NextCohesion]_vars

\* the imports of module m that count as internal: those that became its
\* edges and its further internal imports
InternalCount(m) ==
    Cardinality({i \in 1..Len(edges) : edges[i][1] = m}) + mods[m].internal

\* the distinct external namespaces module m imports from
ExternalNamespaces(m) == {mods[m].external[i] : i \in 1..Len(mods[m].external)}

ImportCount(m) == InternalCount(m) + Len(mods[m].external)

\* the fractions a and b are the same number
SameFraction(a, b) == a[1] * b[2] = b[1] * a[2]

\* (internal + 1) / (internal + 1 + unique namespaces) of module m is
\* strictly below min_cohesion and m has three or more namespaces
LowByDefinition(m) ==
    LET min == config.thresholds.min_cohesion
        unique == Cardinality(ExternalNamespaces(m))
    IN  /\ (InternalCount(m) + 1) * min[2] < min[1] * (InternalCount(m) + 1 + unique)
        /\ unique >= 3

\* C14: a module that is no re-export hub and has at least one import gets
\* a LowCohesion issue if and only if (internal + 1) / (internal + 1 +
\* unique external namespaces) is strictly below min_cohesion and it has at
\* least 3 unique external namespaces, and the issue carries that score; 0
\* internal imports with 1 namespace score 1/2 and with 3 namespaces 1/4;
\* hubs and modules without imports get no issue.
C14_LowCohesionIffScore ==
    op = "detect_low_cohesion" =>
        /\ \A i \in 1..Len(issues) :
              /\ issues[i].kind = "LowCohesion"
              /\ Len(issues[i].locations) = 1
              /\ LocationPaths(issues[i]) \subseteq NodeIds
        /\ \A m \in NodeIds :
              /\ (~mods[m].hub /\ ImportCount(m) >= 1) =>
                    /\ Cardinality(IssuesAt(m)) = (IF LowByDefinition(m) THEN 1 ELSE 0)
                    /\ \A i \in IssuesAt(m) :
                          SameFraction(issues[i].payload[1],
                                       <<InternalCount(m) + 1,
                                         InternalCount(m) + 1
                                            + Cardinality(ExternalNamespaces(m))>>)
              /\ (mods[m].hub \/ ImportCount(m) = 0) => IssuesAt(m) = {}
              /\ (InternalCount(m) = 0 /\ Cardinality(ExternalNamespaces(m)) = 1) =>
                    SameFraction(cohesion_score(fan_out(m) + mods[m].internal,
                                                mods[m].external), <<1, 2>>)
              /\ (InternalCount(m) = 0 /\ Cardinality(ExternalNamespaces(m)) = 3) =>
                    SameFraction(cohesion_score(fan_out(m) + mods[m].internal,
                                                mods[m].external), <<1, 4>>)

\* a module with no internal import and four imports from three crates is
\* flagged with score 1/4 under the default threshold, next to a module
\* with one internal import and three crates (score 2/5) that is not
C14_Witness ==
    /\ op = "detect_low_cohesion"
    /\ config = DefaultConfig
    /\ nodes = 2
    /\ \E a, b \in NodeIds :
          /\ ~mods[a].hub /\ InternalCount(a) = 0
          /\ Len(mods[a].external) = 4 /\ Cardinality(ExternalNamespaces(a)) = 3
          /\ ~mods[b].hub /\ InternalCount(b) = 1
          /\ Cardinality(ExternalNamespaces(b)) = 3
          /\ IssuesAt(b) = {}
          /\ \E i \in IssuesAt(a) : issues[i].payload[1] = <<1, 4>>

----------------------------------------------------------------------------
\* detect_god_objects, over modules around each of its signals

\* line counts, struct, function and impl counts on both sides of their
\* limits, with and without a trait (Rust) and an interface (TypeScript)
GodShapes ==
    {[PlainModule EXCEPT !.lines = l, !.structs = s, !.functions = f,
                         !.traits = t, !.interfaces = i, !.impls = im] :
        l \in {499, 500}, s \in {3, 4}, f \in {10, 11}, t \in {0, 1},
        i \in {0, 1}, im \in {5, 6}}

\* god_object_lines 500 (the default) and 400
GodConfigs ==
    {[DefaultConfig EXCEPT !.thresholds.god_object_lines = l] : l \in {400, 500}}

InitGod ==
    /\ nodes \in 1..MaxGodModules
    /\ edges = <<>>
    /\ op = "build"
    /\ issues = <<>>
    /\ order = NoOrder
    /\ impact = NoImpact
    /\ files = [m \in 1..nodes |-> <<>>]
    /\ config \in GodConfigs
    /\ filtered = <<>>
    /\ mods \in [1..nodes -> GodShapes]
    /\ walk = NoWalk
    /\ glob = NoGlob
    /\ graph_data = NoGraphData

DetectGodObjects ==
    /\ op' = "detect_god_objects"
    /\ issues' = detect_god_objects
    /\ filtered' = <<>>
    /\ order' = NoOrder
    /\ impact' = NoImpact
    /\ UNCHANGED <<graph_data, glob, walk, nodes, edges, files, config, mods>>

NextGod == DetectGodObjects

SpecGod == InitGod /\ [][NextGod]_vars

\* the responsibility signals that hold for module m
Signals(m) ==
    {sig \in {"structs", "functions", "trait or interface", "impls"} :
        \/ sig = "structs" /\ mods[m].structs > 3
        \/ sig = "functions" /\ mods[m].functions > 10
        \/ sig = "trait or interface" /\ mods[m].traits + mods[m].interfaces >= 1
        \/ sig = "impls" /\ mods[m].impls > 5}

\* C15: detect_god_objects flags a module if and only if its line count is
\* at least god_object_lines and at least two of the four signals hold
\* (more than 3 structs, more than 10 functions, a trait or interface
\* declaration, more than 5 impl blocks); a module with none of the signals
\* is never flagged.
C15_GodIffTwoSignals ==
    op = "detect_god_objects" =>
        \A m \in NodeIds :
            /\ IssuesAt(m) # {} <=>
                  /\ mods[m].lines >= config.thresholds.god_object_lines
                  /\ Cardinality(Signals(m)) >= 2
            /\ Signals(m) = {} => IssuesAt(m) = {}

----------------------------------------------------------------------------
\* detect_high_coupling, on every graph within the bounds

\* coupling_fanin 1 and 2, with no module or the first module matched by an
\* expected_high_coupling pattern
CouplingConfigs ==
    {[DefaultConfig EXCEPT !.thresholds.coupling_fanin = f,
                           !.expected_high_coupling = e] :
        f \in {1, 2}, e \in {{}, {1}}}

InitCoupling ==
    /\ nodes \in 1..MaxNodes
    /\ edges \in EdgeLists(nodes)
    /\ op = "build"
    /\ issues = <<>>
    /\ order = NoOrder
    /\ impact = NoImpact
    /\ files = [m \in 1..nodes |-> <<>>]
    /\ config \in CouplingConfigs
    /\ filtered = <<>>
    /\ mods = [m \in 1..nodes |-> PlainModule]
    /\ walk = NoWalk
    /\ glob = NoGlob
    /\ graph_data = NoGraphData

DetectHighCoupling ==
    \E iter \in IterationOrders(NodeIds) :
        /\ op' = "detect_high_coupling"
        /\ issues' = detect_high_coupling(iter)
        /\ filtered' = <<>>
        /\ order' = NoOrder
        /\ impact' = NoImpact
        /\ UNCHANGED <<graph_data, glob, walk, nodes, edges, files, config, mods>>

NextCoupling == DetectHighCoupling

SpecCoupling == InitCoupling /\ [][NextCoupling]_vars

\* the modules that import m
Importers(m) == {a \in NodeIds : HasEdge(a, m)}

\* C16: detect_high_coupling flags a module if and only if the number of
\* modules that import it is at least coupling_fanin and no
\* expected_high_coupling pattern matches its path, an importing module
\* counting once however many of its imports resolve to the module; the
\* reported count is the number of other modules importing it.
C16_CouplingIffImporters ==
    op = "detect_high_coupling" =>
        \A m \in NodeIds :
            /\ Cardinality(IssuesAt(m)) =
                  (IF Cardinality(Importers(m)) >= config.thresholds.coupling_fanin
                        /\ m \notin config.expected_high_coupling
                   THEN 1 ELSE 0)
            /\ \A i \in IssuesAt(m) :
                  /\ issues[i].kind = "HighCoupling"
                  /\ issues[i].payload = <<Cardinality(Importers(m) \ {m})>>

----------------------------------------------------------------------------
\* detect_deep_dependency_chains, on small graphs and on import chains

\* the imports of the chain 1 -> 2 -> ... -> n
ChainEdges(n) == [i \in 1..(n - 1) |-> <<i, i + 1>>]

\* a chain, alone or followed by one further import between any two of its
\* modules (a shortcut, a parallel edge, a back edge or a self-import)
ChainGraphs(n) ==
    {ChainEdges(n)} \cup {Append(ChainEdges(n), e) : e \in (1..n) \X (1..n)}

\* max_dependency_depth 0, 1 and 2
DepthConfigs ==
    {[DefaultConfig EXCEPT !.thresholds.max_dependency_depth = d] : d \in 0..2}

InitDepth ==
    /\ \/ /\ nodes \in 1..MaxNodes
          /\ edges \in EdgeLists(nodes)
       \/ /\ nodes \in 1..MaxChainNodes
          /\ edges \in ChainGraphs(nodes)
    /\ op = "build"
    /\ issues = <<>>
    /\ order = NoOrder
    /\ impact = NoImpact
    /\ files = [m \in 1..nodes |-> <<>>]
    /\ config \in DepthConfigs
    /\ filtered = <<>>
    /\ mods = [m \in 1..nodes |-> PlainModule]
    /\ walk = NoWalk
    /\ glob = NoGlob
    /\ graph_data = NoGraphData

\* one call on the graph as built; the detector reads nothing a call changes
DetectDeepChains ==
    \E iter \in IterationOrders(NodeIds) :
        /\ op = "build"
        /\ op' = "detect_deep_dependency_chains"
        /\ issues' = detect_deep_dependency_chains(iter)
        /\ filtered' = <<>>
        /\ order' = NoOrder
        /\ impact' = NoImpact
        /\ UNCHANGED <<graph_data, glob, walk, nodes, edges, files, config, mods>>

NextDepth == DetectDeepChains

SpecDepth == InitDepth /\ [][NextDepth]_vars

\* the modules of an issue's locations, in order
ChainOf(issue) == [i \in 1..Len(issue.locations) |-> issue.locations[i].path]

\* chain is a simple directed path of the graph
SimplePath(chain) ==
    /\ chain # <<>>
    /\ Range(chain) \subseteq NodeIds
    /\ NoDuplicates(chain)
    /\ \A i \in 1..(Len(chain) - 1) : HasEdge(chain[i], chain[i + 1])

\* every reported chain is a simple path with more than max_depth and at
\* most max_depth + extra modules, and the depth payload is its length
ChainsWithin(extra) ==
    op = "detect_deep_dependency_chains" =>
        \A i \in 1..Len(issues) :
            /\ issues[i].kind = "DeepDependencyChain"
            /\ SimplePath(ChainOf(issues[i]))
            /\ Len(ChainOf(issues[i])) > config.thresholds.max_dependency_depth
            /\ Len(ChainOf(issues[i])) <= config.thresholds.max_dependency_depth + extra
            /\ issues[i].payload[1] = Len(ChainOf(issues[i]))

\* C17 as stated: every reported chain is a simple directed path with more
\* than max_depth and at most max_depth + 2 modules, and the issue's depth
\* is that number of modules.
C17_ChainLengthAtMostPlus2 == ChainsWithin(2)

\* C17 as amended: every reported chain is a simple directed path with more
\* than max_depth and at most max_depth + 4 modules (the search admits
\* max_depth + 2 intermediate modules between the two ends), and the
\* issue's depth is that number of modules.
C17_ChainLengthAtMostPlus4 == ChainsWithin(4)

\* under max_depth 0 a chain of five modules is reported by its
\* sub-chains of four modules at the longest, and they are reported
C17_Witness ==
    /\ op = "detect_deep_dependency_chains"
    /\ config.thresholds.max_dependency_depth = 0
    /\ nodes = 5
    /\ edges = ChainEdges(5)
    /\ \E i \in 1..Len(issues) : ChainOf(issues[i]) = <<1, 2, 3, 4>>
    /\ \E i \in 1..Len(issues) : ChainOf(issues[i]) = <<2, 3, 4, 5>>

----------------------------------------------------------------------------
\* analysis/graph.rs: DependencyGraph::build from paths and import strings

\* str::ends_with("/" + suffix joined by "/"): the last components of the
\* path are the suffix and a component precedes them
PathEndsWith(path, suffix) ==
    /\ Len(path) > Len(suffix)
    /\ SubSeq(path, Len(path) - Len(suffix) + 1, Len(path)) = suffix

\* the closure handed to `find` in resolve_import
ModuleMatches(path, module_segments) ==
    LET first_segment == module_segments[1]
        is_mod_file == PathEndsWith(path, <<first_segment, "mod.rs">>)
        is_direct_file == PathEndsWith(path, <<first_segment \o ".rs">>)
        is_submodule ==
            IF Len(module_segments) > 1
            THEN PathEndsWith(path, <<first_segment, module_segments[2] \o ".rs">>)
            ELSE FALSE
    IN  is_mod_file \/ is_direct_file \/ is_submodule

\* a lookup that keeps the last module that matches
FirstMatch_LastWins(modules, module_segments) ==
    LET hits == SelectSeq(modules, LAMBDA m : ModuleMatches(m.path, module_segments))
    IN  IF hits = <<>> THEN <<>> ELSE <<hits[Len(hits)].path>>

\* Option<PathBuf>: <<>> is None, <<path>> is Some(path)
FirstMatch(modules, module_segments) ==
    LET hits == SelectSeq(modules, LAMBDA m : ModuleMatches(m.path, module_segments))
    IN  IF hits = <<>> THEN <<>> ELSE <<hits[1].path>>

\* resolve_import that also looks up imports from other crates
resolve_import_AnyCrate(import, modules) ==
    IF Len(import) > 1 THEN FirstMatch(modules, Tail(import)) ELSE <<>>

\* segments is the import split at "::"
resolve_import(import, modules) ==
    IF import[1] = "crate" /\ Len(import) > 1
    THEN FirstMatch(modules, Tail(import))
    ELSE <<>>

\* node_indices after the first loop of build: inserting a path again
\* replaces its index
node_indices(modules) ==
    [p \in {modules[i].path : i \in 1..Len(modules)} |->
        CHOOSE i \in 1..Len(modules) :
            /\ modules[i].path = p
            /\ \A j \in (i + 1)..Len(modules) : modules[j].path # p]

\* the add_edge calls of build, in order
BuildEdges(modules) ==
    LET indices == node_indices(modules)
        ImportEdge(from_idx, import) ==
            LET target_path == resolve_import(import, modules)
            IN  IF target_path # <<>> /\ target_path[1] \in DOMAIN indices
                THEN <<<<from_idx, indices[target_path[1]]>>>>
                ELSE <<>>
    IN  Flatten([m \in 1..Len(modules) |->
            Flatten([k \in 1..Len(modules[m].imports) |->
                ImportEdge(indices[modules[m].path], modules[m].imports[k])])])

\* DependencyGraph::contains on the graph built from the Module list
contains_key(path) == path \in DOMAIN node_indices(SubSeq(mods, 1, nodes))

\* the weight of node idx
NodeWeight(idx) == mods[idx].path

----------------------------------------------------------------------------
\* build, over Module lists with unique paths

ModulePaths ==
    {<<"src", "model", "mod.rs">>, <<"src", "model.rs">>,
     <<"src", "model", "issue.rs">>, <<"model.rs">>, <<"src", "main.rs">>}

ImportStrings ==
    {<<"crate", "model", "Module">>, <<"crate", "model", "issue">>,
     <<"crate", "config", "Config">>, <<"serde", "model">>, <<"crate">>,
     <<"model", "issue">>, <<"super", "model">>}

\* the sequences over S of at most n elements
SeqsUpTo(S, n) == UNION {[1..k -> S] : k \in 0..n}

ModuleLists ==
    {l \in SeqsUpTo({[PlainModule EXCEPT !.path = p, !.imports = is] :
                        p \in ModulePaths, is \in SeqsUpTo(ImportStrings, MaxImports)},
                    MaxBuildModules) :
        \A i, j \in 1..Len(l) : l[i].path = l[j].path => i = j}

InitBuild ==
    /\ nodes = 0
    /\ edges = <<>>
    /\ op = "modules"
    /\ issues = <<>>
    /\ order = NoOrder
    /\ impact = NoImpact
    /\ files = <<>>
    /\ config = DefaultConfig
    /\ filtered = <<>>
    /\ mods \in ModuleLists
    /\ walk = NoWalk
    /\ glob = NoGlob
    /\ graph_data = NoGraphData

Build ==
    /\ op' = "build"
    /\ nodes' = Len(mods)
    /\ edges' = BuildEdges(mods)
    /\ issues' = <<>>
    /\ order' = NoOrder
    /\ impact' = NoImpact
    /\ filtered' = <<>>
    /\ UNCHANGED <<graph_data, glob, walk, files, config, mods>>

NextBuild == Build

SpecBuild == InitBuild /\ [][NextBuild]_vars

\* the import names a module of this crate that is in the Module list: it
\* begins with crate:: and some module's file is <first>.rs or
\* <first>/mod.rs or <first>/<second>.rs below some directory
Resolves(import) ==
    /\ Len(import) >= 2
    /\ import[1] = "crate"
    /\ \E i \in 1..Len(mods) :
          LET p == mods[i].path
              n == Len(p)
          IN  \/ n >= 2 /\ p[n] = import[2] \o ".rs"
              \/ n >= 3 /\ p[n - 1] = import[2] /\ p[n] = "mod.rs"
              \/ n >= 3 /\ Len(import) >= 3 /\ p[n - 1] = import[2]
                    /\ p[n] = import[3] \o ".rs"

\* the (module, import) pairs of the Module list
ImportSites == {<<m, k>> \in (1..Len(mods)) \X (1..MaxImports) : k <= Len(mods[m].imports)}

\* C18: after build over a Module list with unique paths the graph has one
\* node per module, the node paths are exactly the module paths and
\* contains(p) holds exactly for them; every edge joins two nodes; and an
\* import that resolves to no module adds no edge: a module has as many
\* outgoing edges as it has resolving imports.
C18_NodesAreModules ==
    op = "build" =>
        /\ nodes = Len(mods)
        /\ \A i, j \in NodeIds : NodeWeight(i) = NodeWeight(j) => i = j
        /\ \A p \in ModulePaths :
              /\ contains_key(p) <=> \E i \in 1..Len(mods) : mods[i].path = p
              /\ contains_key(p) <=> \E i \in NodeIds : NodeWeight(i) = p
        /\ \A i \in 1..Len(edges) : edges[i][1] \in NodeIds /\ edges[i][2] \in NodeIds
        /\ \A m \in 1..Len(mods) :
              Cardinality({i \in 1..Len(edges) : edges[i][1] = m})
                 = Cardinality({s \in ImportSites :
                                   s[1] = m /\ Resolves(mods[m].imports[s[2]])})
        /\ Len(edges) <= Cardinality(ImportSites)

\* a module with one import that resolves and one that does not: one edge
C18_Witness ==
    /\ op = "build"
    /\ nodes = 2
    /\ mods[1].path = <<"src", "main.rs">>
    /\ mods[1].imports = <<<<"crate", "config", "Config">>, <<"crate", "model", "Module">>>>
    /\ mods[2].path = <<"src", "model", "mod.rs">>
    /\ edges = <<<<1, 2>>>>

----------------------------------------------------------------------------
\* Claims about the locations of issues

\* C19: every issue a detector produces has one or more locations, under
\* every configuration; stated for the boundary detector under every
\* boundary_violation_min (0 and 1 included) and every ownership threshold.
C19_IssuesHaveLocations ==
    Scanned => \A i \in 1..Len(issues) : Len(issues[i].locations) >= 1

\* ---------------------------------------------------------------------------
\* analysis/mod.rs: discover_modules, the parallel walk that makes the Module
\* list
\* ---------------------------------------------------------------------------

\* what the visitor closure does with an entry: a source file gives a Module,
\* a file parse_module rejects gives a warning, a file no parser claims and a
\* directory are skipped
TreeEntries ==
    {[path |-> <<"src", "main.rs">>, outcome |-> "module",
      imports |-> <<<<"crate", "model", "Module">>>>],
     [path |-> <<"src", "model.rs">>, outcome |-> "module", imports |-> <<>>],
     [path |-> <<"src", "model", "mod.rs">>, outcome |-> "module",
      imports |-> <<>>],
     [path |-> <<"src", "broken.rs">>, outcome |-> "parse_error",
      imports |-> <<>>],
     [path |-> <<"README.md">>, outcome |-> "no_parser", imports |-> <<>>],
     [path |-> <<"src", "model">>, outcome |-> "not_file", imports |-> <<>>]}

\* a source tree, in the order the walk reaches its entries; a path names one
\* entry
Trees ==
    {t \in SeqsUpTo(TreeEntries, MaxTreeEntries) :
        \A i, j \in 1..Len(t) : t[i] = t[j] => i = j}

\* the Module parse_module returns for a source file
ParsedModule(entry) ==
    [PlainModule EXCEPT !.path = entry.path, !.imports = entry.imports]

\* the edges of a graph as pairs of module paths
PathEdges(modules, es) ==
    {<<modules[es[i][1]].path, modules[es[i][2]].path>> : i \in 1..Len(es)}

\* before the first run: a tree on disk and num_cpus() worker threads
InitDiscover ==
    /\ nodes = 0
    /\ edges = <<>>
    /\ op = "tree"
    /\ issues = <<>>
    /\ order = NoOrder
    /\ impact = NoImpact
    /\ files = <<>>
    /\ config = DefaultConfig
    /\ filtered = <<>>
    /\ mods = <<>>
    /\ glob = NoGlob
    /\ graph_data = NoGraphData
    /\ \E t \in Trees, threads \in 1..MaxWorkers :
        walk = [tree |-> t, pending |-> {}, busy |-> [w \in 1..threads |-> <<>>],
                runs |-> 0, previous |-> <<>>]

\* analyze_with_fs entering discover_modules: an empty Mutex<Vec<Module>> and a
\* parallel walker over the tree; the caller keeps the AnalysisResult of the
\* run before
StartDiscover ==
    /\ op \in {"tree", "build"}
    /\ walk.runs < MaxRuns
    /\ op' = "walk"
    /\ walk' = [walk EXCEPT
            !.pending = 1..Len(walk.tree),
            !.runs = @ + 1,
            !.previous = IF op = "build"
                         THEN <<[modules |-> mods,
                                 edges |-> PathEdges(mods, edges)]>>
                         ELSE <<>>]
    /\ mods' = <<>>
    /\ nodes' = 0
    /\ edges' = <<>>
    /\ UNCHANGED <<graph_data, glob, issues, order, impact, files, config, filtered>>

\* the next entry of the walk, handed to the worker that asks
NextEntry == CHOOSE i \in walk.pending : \A j \in walk.pending : i <= j

\* a worker thread runs the visitor closure on the next entry up to the lock:
\* it skips what is no source file and parses what is one
Visit(w) ==
    /\ op = "walk"
    /\ walk.busy[w] = <<>>
    /\ walk.pending # {}
    /\ LET entry == walk.tree[NextEntry]
       IN  walk' = [walk EXCEPT
               !.pending = @ \ {NextEntry},
               !.busy[w] = IF entry.outcome = "module"
                           THEN <<ParsedModule(entry)>>
                           ELSE <<>>]
    /\ UNCHANGED <<graph_data, glob, nodes, edges, op, issues, order, impact, files, config,
                   filtered, mods>>

\* modules.lock().unwrap().push(module): the worker that gets the lock appends
\* its module
Push(w) ==
    /\ op = "walk"
    /\ walk.busy[w] # <<>>
    /\ mods' = Append(mods, walk.busy[w][1])
    /\ walk' = [walk EXCEPT !.busy[w] = <<>>]
    /\ UNCHANGED <<graph_data, glob, nodes, edges, op, issues, order, impact, files, config,
                   filtered>>

\* walker.run returns once every entry is visited; modules.into_inner()
FinishDiscover ==
    /\ op = "walk"
    /\ walk.pending = {}
    /\ \A w \in DOMAIN walk.busy : walk.busy[w] = <<>>
    /\ op' = "discovered"
    /\ UNCHANGED <<graph_data, glob, nodes, edges, issues, order, impact, files, config, filtered,
                   mods, walk>>

\* DependencyGraph::build(&modules) on the list discover_modules returned
BuildDiscovered ==
    /\ op = "discovered"
    /\ Build

NextDiscover ==
    \/ StartDiscover
    \/ \E w \in DOMAIN walk.busy : Visit(w)
    \/ \E w \in DOMAIN walk.busy : Push(w)
    \/ FinishDiscover
    \/ BuildDiscovered

SpecDiscover == InitDiscover /\ [][NextDiscover]_vars

\* the source files of the tree that parse
ParsedPaths == {walk.tree[i].path : i \in {j \in 1..Len(walk.tree) :
                                            walk.tree[j].outcome = "module"}}

\* C20: when a run over a tree follows a run over the same tree, it yields the
\* same Module sequence and the same resolved import edges whatever the
\* interleaving of the worker threads, and in every run each file that parses
\* is in the Module list exactly once.
C20_StableModuleOrder ==
    op = "build" =>
        /\ walk.previous # <<>> =>
            /\ mods = walk.previous[1].modules
            /\ PathEdges(mods, edges) = walk.previous[1].edges
        /\ \A p \in ParsedPaths :
            Cardinality({i \in 1..Len(mods) : mods[i].path = p}) = 1
        /\ \A i \in 1..Len(mods) : mods[i].path \in ParsedPaths

----------------------------------------------------------------------------
\* Claims about import resolution

\* the module files an import's segments name: <first>.rs, <first>/mod.rs
\* or <first>/<second>.rs below some directory
Candidates(segments) ==
    {i \in 1..Len(mods) :
        LET p == mods[i].path
            n == Len(p)
        IN  \/ n >= 2 /\ p[n] = segments[1] \o ".rs"
            \/ n >= 3 /\ p[n - 1] = segments[1] /\ p[n] = "mod.rs"
            \/ n >= 3 /\ Len(segments) >= 2 /\ p[n - 1] = segments[1]
                  /\ p[n] = segments[2] \o ".rs"}

\* the first module of the list among the candidates, if any
FirstCandidate(segments) ==
    IF segments = <<>> \/ Candidates(segments) = {}
    THEN <<>>
    ELSE <<CHOOSE i \in Candidates(segments) : \A j \in Candidates(segments) : i <= j>>

\* the edges build adds when each import of each module, in order, gives the
\* edge Target says
EdgesBy(Target(_)) ==
    Flatten([m \in 1..Len(mods) |->
        Flatten([k \in 1..Len(mods[m].imports) |->
            LET to == Target(mods[m].imports[k])
            IN  IF to = <<>> THEN <<>> ELSE <<<<m, to[1]>>>>])])

\* every import but a self/relative one is looked up by its leading segments,
\* after a leading crate
TargetOfLeadingSegments(import) ==
    IF import[1] \in {"super", "self"}
    THEN <<>>
    ELSE FirstCandidate(IF import[1] = "crate" THEN Tail(import) ELSE import)

\* only an import that begins with crate:: is looked up, by the segments after
\* crate
TargetOfCrateImport(import) ==
    IF Len(import) >= 2 /\ import[1] = "crate"
    THEN FirstCandidate(Tail(import))
    ELSE <<>>

----------------------------------------------------------------------------
\* detect_low_cohesion, over modules whose scores are close

\* three namespaces, in three or four imports, and 0, 1, 17 or 18 internal
\* imports: the scores 1/4, 2/5, 18/21 and 19/22
SortShapes ==
    {[PlainModule EXCEPT !.internal = i, !.external = e] :
        i \in {0, 1, 17, 18},
        e \in {<<"serde", "tokio", "regex">>,
               <<"serde", "serde", "tokio", "regex">>}}

\* min_cohesion 0.3 (the default) and 0.9
SortConfigs ==
    {[DefaultConfig EXCEPT !.thresholds.min_cohesion = <<t, 10>>] : t \in {3, 9}}

InitCohesionSort ==
    /\ nodes \in 1..MaxSortModules
    /\ edges = <<>>
    /\ op = "build"
    /\ issues = <<>>
    /\ order = NoOrder
    /\ impact = NoImpact
    /\ files = [m \in 1..nodes |-> <<>>]
    /\ config \in SortConfigs
    /\ filtered = <<>>
    /\ mods \in [1..nodes -> SortShapes]
    /\ walk = NoWalk
    /\ glob = NoGlob
    /\ graph_data = NoGraphData

SpecCohesionSort == InitCohesionSort /\ [][NextCohesion]_vars

\* the fraction a is strictly below the fraction b
FractionBelow(a, b) == a[1] * b[2] < b[1] * a[2]

\* C22: the issues of detect_low_cohesion are in ascending order of their
\* score payload: of two issues the one with the strictly lower score comes
\* first, whatever the order of the modules in the list.
C22_AscendingByScore ==
    op = "detect_low_cohesion" =>
        \A i, j \in 1..Len(issues) :
            FractionBelow(issues[i].payload[1], issues[j].payload[1]) => i < j

\* ---------------------------------------------------------------------------
\* analysis/cohesion.rs: detect_low_cohesion from the import strings
\* ---------------------------------------------------------------------------

\* str::split('/') on the strings of the model
SplitSlash(s) ==
    CASE s = "lodash/fp" -> <<"lodash", "fp">>
      [] s = "lodash/map" -> <<"lodash", "map">>
      [] s = "@babel/core" -> <<"@babel", "core">>
      [] s = "@babel/core/lib" -> <<"@babel", "core", "lib">>
      [] s = "./util" -> <<".", "util">>
      [] OTHER -> <<s>>

\* format!("{}/{}", first, second) on the strings of the model
JoinSlash(first, second) ==
    CASE first = "@babel" /\ second = "core" -> "@babel/core"
      [] first = "lodash" /\ second = "fp" -> "lodash/fp"
      [] first = "lodash" /\ second = "map" -> "lodash/map"
      [] OTHER -> "./util"

\* str::starts_with('@')
StartsWithAt(s) == s \in {"@babel", "@babel/core", "@babel/core/lib"}

\* Path::file_stem on the file names of the model
file_stem(name) ==
    CASE name = "app.ts" -> "app"
      [] name = "fp.ts" -> "fp"
      [] name = "other.ts" -> "other"
      [] name = "mod.rs" -> "mod"
      [] name = "model.rs" -> "model"
      [] name = "issue.rs" -> "issue"
      [] name = "main.rs" -> "main"
      [] OTHER -> name

\* an import is the sequence of its parts between "::"
\* starts_with("./") || starts_with("../")
StartsWithDotSlash(import) ==
    LET parts == SplitSlash(import[1])
    IN  Len(parts) > 1 /\ parts[1] \in {".", ".."}

\* starts_with("super::") || starts_with("self::") || starts_with("crate::")
StartsWithSelfPrefix(import) ==
    Len(import) > 1 /\ import[1] \in {"super", "self", "crate"}

is_relative_import(import) ==
    StartsWithSelfPrefix(import) \/ StartsWithDotSlash(import)

\* the last part between "::", its last part between "/", what precedes its
\* first "."; no such part of the model has a "."
extract_module_name(import) ==
    LET parts == SplitSlash(import[Len(import)])
    IN  parts[Len(parts)]

\* `import.split("::").next()` is Some for every string, so the branch for
\* imports without "::" is never taken
extract_crate_name(import) ==
    IF StartsWithDotSlash(import) THEN "relative"
    ELSE IF StartsWithSelfPrefix(import) THEN "crate"
    ELSE LET first == <<import[1]>>
         IN  IF first # <<>>
             THEN IF first[1] \in {"std", "core", "alloc"} THEN "std"
                  ELSE first[1]
             ELSE LET parts == SplitSlash(import[1])
                  IN  IF StartsWithAt(parts[1]) /\ Len(parts) > 1
                      THEN JoinSlash(parts[1], parts[2])
                      ELSE parts[1]

\* get_package_name: the directory of the file, "root" without one
get_package_name(path) ==
    IF Len(path) >= 2 THEN path[Len(path) - 1] ELSE "root"

\* the names of the modules in m's package
siblings(m) ==
    {file_stem(mods[i].path[Len(mods[i].path)]) :
        i \in {j \in 1..nodes :
                  get_package_name(mods[j].path) = get_package_name(mods[m].path)}}

\* the loop over module.imports: an import is internal if it names a sibling
\* or is relative
IsInternalImport(m, import) ==
    extract_module_name(import) \in siblings(m) \/ is_relative_import(import)

internal_imports_of(m) ==
    Len(SelectSeq(mods[m].imports, LAMBDA import : IsInternalImport(m, import)))

\* the key under which each external import is counted in external_crates
external_crates_of(m) ==
    LET ext == SelectSeq(mods[m].imports, LAMBDA import : ~IsInternalImport(m, import))
    IN  [i \in 1..Len(ext) |-> extract_crate_name(ext[i])]

detect_low_cohesion_of_imports(crateIters) ==
    SortByScore(Flatten([m \in 1..nodes |->
        CohesionIssueOf(m, internal_imports_of(m), external_crates_of(m),
                        crateIters[m])]))

\* Rust imports from serde, std, core and tokio, package imports from lodash
\* and @babel/core, and imports of the module's own crate and directory
NamespaceImports ==
    {<<"serde", "Deserialize">>, <<"serde", "Serialize">>, <<"std", "fmt">>,
     <<"core", "mem">>, <<"tokio", "fs">>, <<"lodash/fp">>, <<"lodash/map">>,
     <<"@babel/core">>, <<"@babel/core/lib">>, <<"crate", "model">>,
     <<"./util">>}

\* the module under test alone, or with a second file in its directory or
\* in another
NamespaceModuleLists ==
    {<<[PlainModule EXCEPT !.path = <<"src", "app.ts">>, !.imports = is]>> \o rest :
        is \in SeqsUpTo(NamespaceImports, MaxNamespaceImports),
        rest \in {<<>>,
                  <<[PlainModule EXCEPT !.path = <<"src", "fp.ts">>]>>,
                  <<[PlainModule EXCEPT !.path = <<"lib", "fp.ts">>]>>,
                  <<[PlainModule EXCEPT !.path = <<"src", "other.ts">>]>>}}

InitNamespace ==
    /\ mods \in NamespaceModuleLists
    /\ nodes = Len(mods)
    /\ edges = <<>>
    /\ op = "build"
    /\ issues = <<>>
    /\ order = NoOrder
    /\ impact = NoImpact
    /\ files = [m \in 1..nodes |-> <<>>]
    /\ config \in CohesionConfigs
    /\ filtered = <<>>
    /\ walk = NoWalk
    /\ glob = NoGlob
    /\ graph_data = NoGraphData

RECURSIVE ImportCrateOrders(_)
\* for each of the first n modules, an iteration order of its
\* external_crates HashMap
ImportCrateOrders(n) ==
    IF n = 0 THEN {<<>>}
    ELSE {Append(f, o) : f \in ImportCrateOrders(n - 1),
                         o \in IterationOrders(Range(external_crates_of(n)))}

DetectLowCohesionOfImports ==
    \E crateIters \in ImportCrateOrders(nodes) :
        /\ op' = "detect_low_cohesion"
        /\ issues' = detect_low_cohesion_of_imports(crateIters)
        /\ filtered' = <<>>
        /\ order' = NoOrder
        /\ impact' = NoImpact
        /\ UNCHANGED <<graph_data, glob, walk, nodes, edges, files, config, mods>>

NextNamespace == DetectLowCohesionOfImports

SpecNamespace == InitNamespace /\ [][NextNamespace]_vars

\* the root package of an import: its first part between "::" with std, core
\* and alloc as one, for an import without "::" its first part between "/",
\* and @scope/name for a scoped package
RootPackage(import) ==
    IF Len(import) > 1
    THEN IF import[1] \in {"std", "core", "alloc"} THEN <<"std">> ELSE <<import[1]>>
    ELSE LET parts == SplitSlash(import[1])
         IN  IF StartsWithAt(parts[1]) /\ Len(parts) > 1
             THEN <<parts[1], parts[2]>>
             ELSE IF parts[1] \in {"std", "core", "alloc"} THEN <<"std">>
             ELSE <<parts[1]>>

\* the distinct root packages among the external imports of module m
RootPackages(m) ==
    {RootPackage(mods[m].imports[k]) :
        k \in {j \in 1..Len(mods[m].imports) :
                  ~IsInternalImport(m, mods[m].imports[j])}}

\* C23: the unique-external-namespace count of a module is the number of
\* distinct root packages among its external imports (the first part between
\* "::", the first part between "/", @scope/name for a scoped package; std,
\* core and alloc are one): an issue carries that count and the score made
\* from it, and a module is flagged exactly when that score is below
\* min_cohesion with three or more root packages.
C23_NamespacesAreRootPackages ==
    op = "detect_low_cohesion" =>
        \A m \in NodeIds :
            LET unique == Cardinality(RootPackages(m))
                internal == internal_imports_of(m)
                min == config.thresholds.min_cohesion
                low == /\ unique >= 3
                       /\ (internal + 1) * min[2] < min[1] * (internal + 1 + unique)
            IN  /\ Cardinality(IssuesAt(m)) = (IF low THEN 1 ELSE 0)
                /\ \A i \in IssuesAt(m) :
                      /\ issues[i].payload[4] = unique
                      /\ SameFraction(issues[i].payload[1],
                                      <<internal + 1, internal + 1 + unique>>)

----------------------------------------------------------------------------
\* Claims about the result list of detect_deep_dependency_chains

RECURSIVE SimplePathsOfLength(_)
\* the simple paths of the graph with k modules, each made from one with
\* k - 1 modules by an import of its last module
SimplePathsOfLength(k) ==
    IF k = 1 THEN {<<n>> : n \in NodeIds}
    ELSE UNION {{Append(shorter, nxt) :
                    nxt \in {to \in NodeIds : /\ HasEdge(shorter[Len(shorter)], to)
                                              /\ to \notin Range(shorter)}} :
                shorter \in SimplePathsOfLength(k - 1)}

\* the chains the detector looks for: the simple paths between two distinct
\* modules with more than max_depth modules, within the reach of the search
\* (max_depth + 2 modules between the two ends)
QualifyingChains ==
    LET max_depth == config.thresholds.max_dependency_depth
    IN  UNION {SimplePathsOfLength(k) :
                  k \in {l \in 2..nodes : l > max_depth /\ l <= max_depth + 4}}

ReportedChains == {ChainOf(issues[i]) : i \in 1..Len(issues)}

\* C24: the result has at most 10 issues, no two with the same ordered
\* sequence of modules (also with parallel edges), in non-increasing order of
\* chain length, and it is a top 10 by length: every chain in it qualifies,
\* all qualifying chains are in it when there are at most 10, and no
\* qualifying chain left out is strictly longer than a chain in it.
C24_TopTenChains ==
    op = "detect_deep_dependency_chains" =>
        /\ Len(issues) <= 10
        /\ \A i, j \in 1..Len(issues) :
              ChainOf(issues[i]) = ChainOf(issues[j]) => i = j
        /\ \A i, j \in 1..Len(issues) :
              i < j => Len(ChainOf(issues[i])) >= Len(ChainOf(issues[j]))
        /\ ReportedChains \subseteq QualifyingChains
        /\ Len(issues) = (IF Cardinality(QualifyingChains) > 10
                          THEN 10 ELSE Cardinality(QualifyingChains))
        /\ \A c \in QualifyingChains \ ReportedChains :
              \A i \in 1..Len(issues) : Len(c) <= Len(ChainOf(issues[i]))

\* five modules importing in a ring, max_depth 0: of the 15 chains of two
\* to four modules the 10 of three and four modules are reported
C24_Witness ==
    /\ op = "detect_deep_dependency_chains"
    /\ config.thresholds.max_dependency_depth = 0
    /\ nodes = 5
    /\ edges = Append(ChainEdges(5), <<5, 1>>)
    /\ Cardinality(QualifyingChains) = 15
    /\ Len(issues) = 10
    /\ \A i \in 1..Len(issues) : Len(ChainOf(issues[i])) >= 3

----------------------------------------------------------------------------
\* The boundary scan, over the lines of one file

\* the pieces of a line: the two indicators, a double quote, a blank and
\* other text
LinePieces == {"sqlx::", "diesel::", "dquote", " ", "query"}

ScanLines == SeqsUpTo(LinePieces, MaxLinePieces)

\* the file under the scan has one line, or two of a few; a second module, if
\* any, uses the boundary on one or two lines
InitScan ==
    /\ nodes \in 1..MaxScanned
    /\ edges = <<>>
    /\ op = "build"
    /\ issues = <<>>
    /\ order = NoOrder
    /\ impact = NoImpact
    /\ \E first \in {<<l>> : l \in ScanLines}
                      \cup {<<a, b>> : a, b \in {CodeLine, LiteralLine,
                                                 <<"sqlx::", "diesel::">>}},
          second \in {CodeLines(1), CodeLines(2)} :
          files = [m \in 1..nodes |-> IF m = 1 THEN first ELSE second]
    /\ \E allowed \in {{}, {1}}, min \in 1..DefaultThresholds.boundary_violation_min :
          config = [DefaultConfig EXCEPT
                      !.thresholds.boundary_violation_min = min,
                      !.boundary = Boundary(default_ownership_threshold, allowed)]
    /\ filtered = <<>>
    /\ mods = [m \in 1..nodes |-> PlainModule]
    /\ walk = NoWalk
    /\ glob = NoGlob
    /\ graph_data = NoGraphData

SpecScan == InitScan /\ [][NextBoundary]_vars

\* the line has an indicator of the boundary at a position not immediately
\* preceded by a quote character
IndicatorOutsideQuote(line) ==
    \E pos \in 1..Len(line) :
        /\ Contains(config.boundary.indicators, line[pos])
        /\ pos = 1 \/ line[pos - 1] \notin QuoteChars

\* C25: in the scan of a module that is not allow-listed a line is a hit if
\* and only if it has an indicator at a position not immediately preceded by
\* a quote character, each line is at most one hit, and an allow-listed
\* module has no hits.
C25_HitIffIndicatorOutsideQuote ==
    Scanned =>
        \A m \in NodeIds :
            LET occ == OccurrencesByModule(config.boundary)
                hits == IF m \in DOMAIN occ THEN occ[m] ELSE <<>>
            IN  /\ is_allowed(config.boundary, m) => hits = <<>>
                /\ ~is_allowed(config.boundary, m) =>
                      \A l \in 1..Len(files[m]) :
                         Cardinality({i \in 1..Len(hits) : hits[i].line = l})
                            = (IF IndicatorOutsideQuote(files[m][l]) THEN 1 ELSE 0)
                /\ \A i \in 1..Len(filtered) : Contains(occ[filtered[i].path], filtered[i])

\* ---------------------------------------------------------------------------
\* model/boundary.rs: glob_match.  A string is the sequence of its characters.
\* ---------------------------------------------------------------------------

\* str::starts_with and str::ends_with
StartsWith(s, prefix) ==
    Len(prefix) <= Len(s) /\ SubSeq(s, 1, Len(prefix)) = prefix

EndsWith(s, suffix) ==
    Len(suffix) <= Len(s) /\ SubSeq(s, Len(s) - Len(suffix) + 1, Len(s)) = suffix

\* &s[i..] with the first character at 1
From(s, i) == SubSeq(s, i, Len(s))

\* pattern.find("**") and pattern.find('*'): the first position, 0 for None
FindDoubleStar(pattern) ==
    LET at == {i \in 1..(Len(pattern) - 1) : pattern[i] = "*" /\ pattern[i + 1] = "*"}
    IN  IF at = {} THEN 0 ELSE CHOOSE i \in at : \A j \in at : i <= j

FindStar(pattern) == find(pattern, "*")

RECURSIVE glob_match_recursive(_, _), StarLoop(_, _, _)

\* the loop over remaining.char_indices() of the single-* branch, from
\* position i
StarLoop(suffix, remaining, i) ==
    IF i > Len(remaining) THEN glob_match_recursive(suffix, <<>>)
    ELSE IF remaining[i] = "/" THEN glob_match_recursive(suffix, From(remaining, i))
    ELSE IF glob_match_recursive(suffix, From(remaining, i)) THEN TRUE
    ELSE StarLoop(suffix, remaining, i + 1)

glob_match_recursive(pattern, path) ==
    IF FindDoubleStar(pattern) # 0
    THEN LET pos == FindDoubleStar(pattern)
             prefix == SubSeq(pattern, 1, pos - 1)
             after == From(pattern, pos + 2)
             suffix == IF after # <<>> /\ after[1] = "/" THEN Tail(after) ELSE after
         IN  IF prefix # <<>> /\ ~StartsWith(path, prefix) THEN FALSE
             ELSE LET remaining == From(path, Len(prefix) + 1)
                  IN  IF suffix = <<>> THEN TRUE
                      ELSE \/ \E i \in 1..Len(remaining) :
                                 glob_match_recursive(suffix, From(remaining, i))
                           \/ glob_match_recursive(suffix, <<>>)
    ELSE IF FindStar(pattern) # 0
    THEN LET pos == FindStar(pattern)
             prefix == SubSeq(pattern, 1, pos - 1)
             suffix == From(pattern, pos + 1)
         IN  IF ~StartsWith(path, prefix) THEN FALSE
             ELSE StarLoop(suffix, From(path, Len(prefix) + 1), 1)
    ELSE pattern = path \/ EndsWith(path, <<"/">> \o pattern)

\* str::replace('\\', "/")
NormalizeSeparators(s) == [i \in 1..Len(s) |-> IF s[i] = "\\" THEN "/" ELSE s[i]]

glob_match(pattern, path) ==
    glob_match_recursive(NormalizeSeparators(pattern), NormalizeSeparators(path))

\* the names of files and directories
Letters == {"a", "b"}

Names == UNION {[1..k -> Letters] : k \in 1..MaxNameChars}

\* relative paths: names joined by "/"
GlobPaths ==
    {s \in UNION {[1..k -> Letters \cup {"/"}] : k \in 1..MaxPathChars} :
        /\ s[1] # "/"
        /\ s[Len(s)] # "/"
        /\ \A i \in 1..(Len(s) - 1) : ~(s[i] = "/" /\ s[i + 1] = "/")}

\* text without wildcard before and after a "*"
AroundStar == SeqsUpTo(Letters \cup {"/"}, MaxNameChars)

\* **/name, **/dir/** and patterns with one "*"
GlobPatterns ==
    {<<"*", "*", "/">> \o n : n \in Names}
        \cup {<<"*", "*", "/">> \o n \o <<"/", "*", "*">> : n \in Names}
        \cup {pre \o <<"*">> \o suf : pre \in AroundStar, suf \in AroundStar}

InitGlob ==
    /\ nodes = 0
    /\ edges = <<>>
    /\ op = "pattern"
    /\ issues = <<>>
    /\ order = NoOrder
    /\ impact = NoImpact
    /\ files = <<>>
    /\ config = DefaultConfig
    /\ filtered = <<>>
    /\ mods = <<>>
    /\ walk = NoWalk
    /\ graph_data = NoGraphData
    /\ \E pattern \in GlobPatterns, path \in GlobPaths :
          glob = [pattern |-> pattern, path |-> path, result |-> <<>>]

GlobMatch ==
    /\ glob.result = <<>>
    /\ op' = "glob_match"
    /\ glob' = [glob EXCEPT !.result = <<glob_match(glob.pattern, glob.path)>>]
    /\ UNCHANGED <<graph_data, nodes, edges, issues, order, impact, files, config, filtered,
                   mods, walk>>

NextGlob == GlobMatch

SpecGlob == InitGlob /\ [][NextGlob]_vars

----------------------------------------------------------------------------
\* Claims about glob_match

RECURSIVE Segments(_)
\* the parts of a path between "/"
Segments(s) ==
    IF ~Contains(s, "/") THEN <<s>>
    ELSE <<SubSeq(s, 1, find(s, "/") - 1)>> \o Segments(From(s, find(s, "/") + 1))

Matched == glob.result = <<TRUE>>

\* glob.pattern is **/name
IsAnyDirName(name) == glob.pattern = <<"*", "*", "/">> \o name

\* glob.pattern is **/dir/**
IsAnyDirDirAny(dir) == glob.pattern = <<"*", "*", "/">> \o dir \o <<"/", "*", "*">>

\* C26: glob_match matches on whole path segments: **/name matches a path
\* only if the final segment of the path is name, **/dir/** only if some
\* complete segment of the path is dir, and a single * stands only for text
\* within one segment, never for text with a "/".
C26_GlobMatchesWholeSegments ==
    Matched =>
        /\ \A name \in Names :
              IsAnyDirName(name) =>
                 Segments(glob.path)[Len(Segments(glob.path))] = name
        /\ \A dir \in Names :
              IsAnyDirDirAny(dir) => Contains(Segments(glob.path), dir)
        /\ \A pre, suf \in AroundStar :
              glob.pattern = pre \o <<"*">> \o suf =>
                 \E k \in 0..Len(glob.path) :
                    \E middle \in [1..k -> Letters] :
                       \/ glob.path = pre \o middle \o suf
                       \/ EndsWith(glob.path, <<"/">> \o pre \o middle \o suf)

\* ---------------------------------------------------------------------------
\* output/ai/context.rs: AiContext::refactoring_order
\* ---------------------------------------------------------------------------

\* the reversed order, each path looked up in the Module list
refactoring_order ==
    SelectSeq(Reverse(topological_order_with_cycles),
              LAMBDA path : \E m \in 1..Len(mods) : m = path)

RefactoringOrder ==
    /\ op' = "refactoring_order"
    /\ order' = [ok |-> TRUE, seq |-> refactoring_order]
    /\ issues' = <<>>
    /\ impact' = NoImpact
    /\ UNCHANGED <<graph_data, glob, walk, nodes, edges, files, config, filtered, mods>>

NextRefactor == RefactoringOrder

\* the refactoring order, on every graph within the bounds
SpecRefactor == Init /\ [][NextRefactor]_vars

\* the position of module m in the order
PositionIn(seq, m) == CHOOSE i \in 1..Len(seq) : seq[i] = m

\* C27: on an acyclic graph refactoring_order lists the modules leaf-first,
\* fewest dependents first: every module comes before each module it imports,
\* and the first module listed has no dependents (fan-in 0).
C27_LeafFirst ==
    (op = "refactoring_order" /\ Acyclic) =>
        /\ Range(order.seq) = NodeIds
        /\ \A a, b \in NodeIds :
              HasEdge(a, b) => PositionIn(order.seq, a) < PositionIn(order.seq, b)
        /\ nodes >= 1 => fan_in(order.seq[1]) = 0

----------------------------------------------------------------------------
\* Claims about the target and the tree of an impact query

\* C28: on any graph, also when the target lies on a cycle or imports
\* itself, the target is in no level of its own affected_by_depth and is not
\* counted in total_affected.
C28_TargetNotAffected ==
    (Ran /\ impact.ok) =>
        /\ impact.target \notin Listed
        /\ impact.total_affected = Cardinality(Listed \ {impact.target})

RECURSIVE TreeNodes(_)
\* the nodes below a node of the impact tree, as [path, depth]
TreeNodes(node) ==
    Flatten([i \in 1..Len(node.children) |->
        <<[path |-> node.children[i].path, depth |-> node.children[i].depth]>>
            \o TreeNodes(node.children[i])])

\* C29: for any graph, target and depth limit the impact tree agrees with
\* the breadth-first result: the paths of the tree's non-root nodes are the
\* paths in affected_by_depth, each path is in the tree at most once, and a
\* node's depth in the tree is the level in which its path is listed.
C29_TreeAgreesWithLevels ==
    (Ran /\ impact.ok) =>
        LET below == TreeNodes(impact.tree)
        IN  /\ {below[i].path : i \in 1..Len(below)} = Listed
            /\ \A i, j \in 1..Len(below) : below[i].path = below[j].path => i = j
            /\ \A i \in 1..Len(below) :
                  /\ below[i].depth \in 1..Len(impact.affected_by_depth)
                  /\ below[i].path \in Level(below[i].depth)


----------------------------------------------------------------------------
\* graph/data.rs: GraphData::from_analysis, the data handed to the visualizer

\* the directory the analysis ran in; module paths are kept relative to it
project_root == <<>>

\* Path::strip_prefix(root).unwrap_or(path), over path components
relative_path(path, root) ==
    IF Len(root) <= Len(path) /\ SubSeq(path, 1, Len(root)) = root
    THEN SubSeq(path, Len(root) + 1, Len(path))
    ELSE path

\* Module::new: the name of a module is the stem of its file
ModuleName(m) == file_stem(m.path[Len(m.path)])

\* resolve_import of graph/data.rs: the first module whose name is the
\* segment after `crate`, or the first segment of any other import but
\* `super` and `self`; <<>> is None, <<path>> is Some(path)
data_resolve_import(import, modules, root) ==
    IF import[1] \in {"super", "self"}
    THEN <<>>
    ELSE LET search_name ==
                 IF import[1] = "crate" /\ Len(import) > 1
                 THEN import[2]
                 ELSE import[1]
             hits == SelectSeq(modules, LAMBDA m : ModuleName(m) = search_name)
         IN  IF hits = <<>> THEN <<>> ELSE <<relative_path(hits[1].path, root)>>

\* the targets of the imports of the modules that resolve, in order, each
\* with the path of the importing module
ResolvedImports(modules, root) ==
    Flatten([m \in 1..Len(modules) |->
        Flatten([k \in 1..Len(modules[m].imports) |->
            LET target == data_resolve_import(modules[m].imports[k], modules, root)
            IN  IF target # <<>>
                THEN <<<<relative_path(modules[m].path, root), target[1]>>>>
                ELSE <<>>])])

\* the paths of the locations of an issue, relative to the root
IssuePaths(issue, modules, root) ==
    [i \in 1..Len(issue.locations) |->
        relative_path(modules[issue.locations[i].path].path, root)]

\* cycle_edges: from each member of a reported cycle to the next, and from
\* the last to the first
cycle_edges(modules, result_issues, root) ==
    UNION {LET paths == IssuePaths(result_issues[i], modules, root)
           IN  {<<paths[j], paths[(j % Len(paths)) + 1]>> : j \in 1..Len(paths)} :
           i \in {i \in 1..Len(result_issues) :
                     result_issues[i].kind = "CircularDependency"}}

\* GraphData::from_analysis
from_analysis(modules, result_issues, root) ==
    LET resolved == ResolvedImports(modules, root)
        fan_ins(path) ==
            Cardinality({i \in 1..Len(resolved) : resolved[i][2] = path})
        issue_counts(path) ==
            Cardinality({ij \in UNION {{<<i, j>> : j \in 1..Len(result_issues[i].locations)} :
                                        i \in 1..Len(result_issues)} :
                IssuePaths(result_issues[ij[1]], modules, root)[ij[2]] = path})
        cycles == cycle_edges(modules, result_issues, root)
    IN  [nodes |->
            [m \in 1..Len(modules) |->
                LET path == relative_path(modules[m].path, root)
                IN  [id |-> path,
                     name |-> ModuleName(modules[m]),
                     fan_in |-> fan_ins(path),
                     fan_out |-> Len(modules[m].imports),
                     issue_count |-> issue_counts(path)]],
         links |->
            [i \in 1..Len(resolved) |->
                [source |-> resolved[i][1],
                 target |-> resolved[i][2],
                 is_cycle |-> resolved[i] \in cycles]],
         metadata |->
            [total_modules |-> Len(modules),
             total_dependencies |-> Len(resolved),
             total_issues |-> Len(result_issues),
             cycle_count |->
                Cardinality({i \in 1..Len(result_issues) :
                    result_issues[i].kind = "CircularDependency"})]]

\* analyze_with_fs after DependencyGraph::build: the issues of the result
\* are gathered on the graph just built (the cycles are the issues the
\* GraphData reads by kind)
AnalyzeBuilt ==
    /\ op = "build"
    /\ DetectCircular

\* the visualizer makes its data from the result of an analysis
FromAnalysis ==
    /\ op = "detect_circular_dependencies"
    /\ op' = "from_analysis"
    /\ graph_data' = from_analysis(mods, issues, project_root)
    /\ UNCHANGED <<nodes, edges, issues, order, impact, files, config, filtered,
                   mods, walk, glob>>

NextGraphData ==
    \/ Build
    \/ AnalyzeBuilt
    \/ FromAnalysis

SpecGraphData == InitBuild /\ [][NextGraphData]_vars

\* the links of the GraphData, as pairs of paths
LinkPairs == {<<graph_data.links[i].source, graph_data.links[i].target>> :
                 i \in 1..Len(graph_data.links)}

\* C30: the GraphData made from an AnalysisResult agrees with the
\* DependencyGraph built from the same Module list: every node carries the
\* fan_in and the fan_out the graph gives its module, the links are the
\* edges of the graph, and total_dependencies is the number of edges
C30_GraphDataAgreesWithGraph ==
    op = "from_analysis" =>
        /\ \A m \in 1..Len(graph_data.nodes) :
               /\ graph_data.nodes[m].fan_in = fan_in(m)
               /\ graph_data.nodes[m].fan_out = fan_out(m)
        /\ LinkPairs = PathEdges(mods, edges)
        /\ graph_data.metadata.total_dependencies = Len(edges)


====
